---- MODULE Spec2Model ----
(***************************************************************************)
(* A model of the lithos-gotmpl template engine: the action lexer, the     *)
(* template parser with its control-frame and append-target stacks, and    *)
(* the evaluator (EvalContext, Template::render).                          *)
(*                                                                         *)
(* Strings are TLA+ strings; the byte at Rust offset i of s is             *)
(* SubSeq(s, i+1, i+1).  All sources are ASCII, so byte offsets and char   *)
(* positions coincide.  Option<T> is a sequence of length 0 (None) or 1    *)
(* (Some).  Result<T, Error> is a record with an ok flag.                  *)
(***************************************************************************)
EXTENDS Integers, Sequences, FiniteSets, TLC

\* ------------------------------------------------------------------------
\* Strings and bytes
\* ------------------------------------------------------------------------

None == <<>>

Some(x) == <<x>>

\* bytes[i] of a Rust string (0-based); "" past the end.
Byte(s, i) == IF i >= 0 /\ i < Len(s) THEN SubSeq(s, i + 1, i + 1) ELSE ""

\* &s[a..b]
Slice(s, a, b) == SubSeq(s, a + 1, b)

StartsWith(s, p) == Len(s) >= Len(p) /\ SubSeq(s, 1, Len(p)) = p

EndsWith(s, p) == Len(s) >= Len(p) /\ SubSeq(s, Len(s) - Len(p) + 1, Len(s)) = p

Lower == {"a", "b", "c", "d", "e", "f", "g", "h", "i", "j", "k", "l", "m",
          "n", "o", "p", "q", "r", "s", "t", "u", "v", "w", "x", "y", "z"}

Upper == {"A", "B", "C", "D", "E", "F", "G", "H", "I", "J", "K", "L", "M",
          "N", "O", "P", "Q", "R", "S", "T", "U", "V", "W", "X", "Y", "Z"}

\* The raw-string delimiter, byte 0x60.  A TLA+ string cannot hold that byte,
\* so sources of the model write raw strings with this character instead.
BackTick == "~"

Digits == <<"0", "1", "2", "3", "4", "5", "6", "7", "8", "9">>

is_ascii_digit(c) == \E i \in 1..10 : Digits[i] = c

\* char::is_whitespace on the ASCII range.
is_whitespace(c) == c \in {" ", "\t", "\n", "\r", "\f"}

\* The four bytes the trim markers strip.
is_trim_space(c) == c \in {" ", "\t", "\n", "\r"}

is_identifier_start(c) == c \in Lower \/ c \in Upper \/ c = "_" \/ c = "$"

is_identifier_part(c) == is_identifier_start(c) \/ is_ascii_digit(c)

RECURSIVE trim_start_from(_, _)
trim_start_from(s, i) ==
    IF i < Len(s) /\ is_whitespace(Byte(s, i)) THEN trim_start_from(s, i + 1) ELSE i

RECURSIVE trim_end_from(_, _)
trim_end_from(s, n) ==
    IF n > 0 /\ is_whitespace(Byte(s, n - 1)) THEN trim_end_from(s, n - 1) ELSE n

\* str::trim_start, str::trim_end, str::trim
trim_start(s) == Slice(s, trim_start_from(s, 0), Len(s))

trim_end(s) == Slice(s, 0, trim_end_from(s, Len(s)))

trim(s) == trim_end(trim_start(s))

\* ------------------------------------------------------------------------
\* Errors and spans
\* ------------------------------------------------------------------------

Span(start, end) == [start |-> start, end |-> end]

ParseError(message, span) == [kind |-> "Parse", message |-> message, span |-> span]

RenderError(message) == [kind |-> "Render", message |-> message, span |-> None]

NoError == [kind |-> "None", message |-> "", span |-> None]

\* ------------------------------------------------------------------------
\* Lexer (lexer.rs)
\* ------------------------------------------------------------------------

Token(kind, text, span) == [kind |-> kind, text |-> text, span |-> span]

Keywords == {"if", "else", "end", "range", "with", "nil", "true", "false"}

RECURSIVE skip_whitespace(_, _)
skip_whitespace(input, pos) ==
    IF pos < Len(input) /\ is_whitespace(Byte(input, pos))
    THEN skip_whitespace(input, pos + 1)
    ELSE pos

\* End position of the identifier whose first char was already consumed.
RECURSIVE read_identifier(_, _)
read_identifier(input, pos) ==
    IF pos < Len(input) /\ is_identifier_part(Byte(input, pos))
    THEN read_identifier(input, pos + 1)
    ELSE pos

RECURSIVE read_number(_, _)
read_number(input, pos) ==
    IF pos < Len(input) /\ (is_ascii_digit(Byte(input, pos)) \/ Byte(input, pos) = ".")
    THEN read_number(input, pos + 1)
    ELSE pos

Unescape(c) ==
    CASE c = "n" -> "\n"
      [] c = "r" -> "\r"
      [] c = "t" -> "\t"
      [] OTHER -> c

\* Reads after the opening quote; the result holds the decoded literal and
\* the position after the closing quote.
RECURSIVE read_string(_, _, _)
read_string(input, pos, literal) ==
    IF pos >= Len(input)
    THEN [ok |-> FALSE, literal |-> literal, pos |-> pos,
          message |-> "unterminated string literal"]
    ELSE LET ch == Byte(input, pos) IN
         IF ch = "\""
         THEN [ok |-> TRUE, literal |-> literal, pos |-> pos + 1, message |-> ""]
         ELSE IF ch = "\\"
         THEN IF pos + 1 < Len(input)
              THEN read_string(input, pos + 2, literal \o Unescape(Byte(input, pos + 1)))
              ELSE [ok |-> FALSE, literal |-> literal, pos |-> pos + 1,
                    message |-> "unterminated escape sequence"]
         ELSE read_string(input, pos + 1, literal \o ch)

RECURSIVE read_raw_string(_, _, _)
read_raw_string(input, pos, literal) ==
    IF pos >= Len(input)
    THEN [ok |-> FALSE, literal |-> literal, pos |-> pos,
          message |-> "unterminated raw string literal"]
    ELSE LET ch == Byte(input, pos) IN
         IF ch = BackTick
         THEN [ok |-> TRUE, literal |-> literal, pos |-> pos + 1, message |-> ""]
         ELSE read_raw_string(input, pos + 1, literal \o ch)

LexTok(kind, text, offset, start, pos) ==
    [status |-> "tok", token |-> Token(kind, text, Span(offset + start, offset + pos)),
     pos |-> pos, error |-> NoError]

LexErr(message, offset, start, pos) ==
    [status |-> "err", token |-> Token("", "", Span(0, 0)), pos |-> pos,
     error |-> ParseError(message, Some(Span(offset + start, offset + pos)))]

\* With a following = the two-byte token, otherwise the one-byte token.
LexPair(input, offset, start, kind2, text2, kind1, text1) ==
    IF Byte(input, start + 1) = "="
    THEN LexTok(kind2, text2, offset, start, start + 2)
    ELSE LexTok(kind1, text1, offset, start, start + 1)

next_token(input, pos0, offset) ==
    LET start == skip_whitespace(input, pos0)
        chr == Byte(input, start)
    IN
    IF start >= Len(input)
    THEN [status |-> "eof", token |-> Token("", "", Span(0, 0)), pos |-> start,
          error |-> NoError]
    ELSE CASE chr = "." -> LexTok("Dot", ".", offset, start, start + 1)
           [] chr = "|" -> LexTok("Pipe", "|", offset, start, start + 1)
           [] chr = ":" -> LexPair(input, offset, start, "Declare", ":=", "Colon", ":")
           [] chr = "=" -> LexPair(input, offset, start, "Operator", "Equal", "Assign", "=")
           [] chr = "!" ->
                IF Byte(input, start + 1) = "="
                THEN LexTok("Operator", "NotEqual", offset, start, start + 2)
                ELSE LexErr("unexpected '!' without '='", offset, start, start + 1)
           [] chr = "<" ->
                LexPair(input, offset, start, "Operator", "LessOrEqual", "Operator", "Less")
           [] chr = ">" ->
                LexPair(input, offset, start, "Operator", "GreaterOrEqual",
                        "Operator", "Greater")
           [] chr = "(" -> LexTok("LeftParen", "(", offset, start, start + 1)
           [] chr = ")" -> LexTok("RightParen", ")", offset, start, start + 1)
           [] chr = "[" -> LexTok("LeftBracket", "[", offset, start, start + 1)
           [] chr = "]" -> LexTok("RightBracket", "]", offset, start, start + 1)
           [] chr = "," -> LexTok("Comma", ",", offset, start, start + 1)
           [] chr = "\"" ->
                LET r == read_string(input, start + 1, "") IN
                IF r.ok THEN LexTok("StringLiteral", r.literal, offset, start, r.pos)
                ELSE LexErr(r.message, offset, start, r.pos)
           [] chr = BackTick ->
                LET r == read_raw_string(input, start + 1, "") IN
                IF r.ok THEN LexTok("StringLiteral", r.literal, offset, start, r.pos)
                ELSE LexErr(r.message, offset, start, r.pos)
           [] is_identifier_start(chr) ->
                LET end == read_identifier(input, start + 1)
                    ident == Slice(input, start, end)
                IN IF ident \in Keywords
                   THEN LexTok("Keyword", ident, offset, start, end)
                   ELSE LexTok("Identifier", ident, offset, start, end)
           [] is_ascii_digit(chr) ->
                LET end == read_number(input, start + 1)
                IN LexTok("NumberLiteral", Slice(input, start, end), offset, start, end)
           [] OTHER -> LexErr("unexpected character '" \o chr \o "'", offset, start, start + 1)

RECURSIVE lex_loop(_, _, _, _)
lex_loop(input, pos, offset, tokens) ==
    LET r == next_token(input, pos, offset) IN
    CASE r.status = "eof" -> [ok |-> TRUE, tokens |-> tokens, error |-> NoError]
      [] r.status = "err" -> [ok |-> FALSE, tokens |-> <<>>, error |-> r.error]
      [] OTHER -> lex_loop(input, r.pos, offset, Append(tokens, r.token))

lex_action(input, offset) == lex_loop(input, 0, offset, <<>>)

\* ------------------------------------------------------------------------
\* AST (ast.rs)
\* ------------------------------------------------------------------------

EIdentifier(name) == [kind |-> "Identifier", name |-> name]

EField(parts) == [kind |-> "Field", parts |-> parts]

EVariable(name) == [kind |-> "Variable", name |-> name]

EPipelineExpr(pipeline) == [kind |-> "PipelineExpr", pipeline |-> pipeline]

EStringLiteral(value) == [kind |-> "StringLiteral", value |-> value]

ENumberLiteral(text) == [kind |-> "NumberLiteral", text |-> text]

EBoolLiteral(flag) == [kind |-> "BoolLiteral", flag |-> flag]

ENil == [kind |-> "Nil"]

Command(target, args) == [target |-> target, args |-> args]

\* kind is "Declare" (:=) or "Assign" (=)
PipelineDeclarations(kind, variables) == [kind |-> kind, variables |-> variables]

\* declarations is an Option<PipelineDeclarations>
Pipeline(declarations, commands) == [declarations |-> declarations, commands |-> commands]

\* ------------------------------------------------------------------------
\* Pipeline parser (parser.rs, ActionParser)
\* ------------------------------------------------------------------------

PErr(message, span, index) ==
    [ok |-> FALSE, val |-> ENil, index |-> index, error |-> ParseError(message, span)]

POk(val, index) == [ok |-> TRUE, val |-> val, index |-> index, error |-> NoError]

is_eof(tokens, index) == index > Len(tokens)

\* ActionParser.index is 0-based in the code; the model's index is the
\* 1-based position of the next token in the sequence.
peek_kind(tokens, index) == IF index <= Len(tokens) THEN tokens[index].kind ELSE "EOF"

RECURSIVE decl_names(_, _, _)
decl_names(tokens, index, names) ==
    IF peek_kind(tokens, index) = "Identifier" /\ StartsWith(tokens[index].text, "$")
    THEN IF peek_kind(tokens, index + 1) = "Comma"
         THEN decl_names(tokens, index + 2, Append(names, tokens[index].text))
         ELSE [names |-> Append(names, tokens[index].text), index |-> index + 1]
    ELSE [names |-> names, index |-> index]

parse_declarations(tokens, save) ==
    LET Decide(r, k) ==
            IF r.names = <<>> \/ k \notin {"Declare", "Assign"}
            THEN [declarations |-> None, index |-> save]
            ELSE [declarations |-> Some(PipelineDeclarations(k, r.names)),
                  index |-> r.index + 1]
        Names(r) == Decide(r, peek_kind(tokens, r.index))
    IN Names(decl_names(tokens, save, <<>>))

RECURSIVE skip_commas(_, _)
skip_commas(tokens, index) ==
    IF peek_kind(tokens, index) = "Comma" THEN skip_commas(tokens, index + 1) ELSE index

RECURSIVE extend_field_segments(_, _, _, _)
extend_field_segments(tokens, index, parts, last_span) ==
    IF /\ peek_kind(tokens, index) = "Dot"
       /\ tokens[index].span.start = last_span.end
       /\ peek_kind(tokens, index + 1) \in {"Identifier", "NumberLiteral"}
    THEN extend_field_segments(tokens, index + 2, Append(parts, tokens[index + 1].text),
                               tokens[index + 1].span)
    ELSE [parts |-> parts, index |-> index]

\* Called with index after the leading Dot token.
parse_field(tokens, index) ==
    LET Segments(r) == POk(EField(r.parts), r.index) IN
    IF peek_kind(tokens, index) \in {"Identifier", "NumberLiteral"}
    THEN Segments(extend_field_segments(tokens, index + 1, <<tokens[index].text>>,
                                        tokens[index].span))
    ELSE POk(EField(<<>>), index)

OperatorName(op) ==
    CASE op = "Equal" -> "eq"
      [] op = "NotEqual" -> "ne"
      [] op = "Less" -> "lt"
      [] op = "LessOrEqual" -> "le"
      [] op = "Greater" -> "gt"
      [] op = "GreaterOrEqual" -> "ge"

\* Index of the RightParen matching the LeftParen consumed just before
\* position index, or Len(tokens) + 1 when there is none.
RECURSIVE matching_paren(_, _, _)
matching_paren(tokens, end, depth) ==
    IF end > Len(tokens) THEN end
    ELSE IF tokens[end].kind = "LeftParen" THEN matching_paren(tokens, end + 1, depth + 1)
    ELSE IF tokens[end].kind = "RightParen"
         THEN IF depth = 1 THEN end ELSE matching_paren(tokens, end + 1, depth - 1)
    ELSE matching_paren(tokens, end + 1, depth)

RECURSIVE parse_pipeline(_, _)
RECURSIVE parse_commands(_, _, _)
RECURSIVE parse_command(_, _)
RECURSIVE parse_args(_, _, _)
RECURSIVE parse_expression(_, _)
RECURSIVE parse_parenthesized_pipeline(_, _)

\* In the operators below an intermediate result is the parameter of a
\* local operator: the ? of the code is the test of its ok field.
parse_pipeline(tokens, index0) ==
    LET Finish(d, rest) ==
            IF ~rest.ok THEN rest
            ELSE IF ~is_eof(tokens, rest.index)
            THEN PErr("unexpected token " \o tokens[rest.index].kind,
                      Some(tokens[rest.index].span), rest.index)
            ELSE POk(Pipeline(d.declarations, rest.val), rest.index)
        Rest(d, first) ==
            IF ~first.ok THEN first
            ELSE Finish(d, parse_commands(tokens, first.index, <<first.val>>))
        Commands(d) ==
            IF is_eof(tokens, d.index) THEN PErr("empty action", None, d.index)
            ELSE Rest(d, parse_command(tokens, d.index))
    IN Commands(parse_declarations(tokens, index0))

\* while self.consume_pipe()? { commands.push(self.parse_command()?) }
parse_commands(tokens, index, commands) ==
    LET Push(c) ==
            IF ~c.ok THEN c ELSE parse_commands(tokens, c.index, Append(commands, c.val))
    IN IF peek_kind(tokens, index) = "Pipe"
       THEN Push(parse_command(tokens, index + 1))
       ELSE POk(commands, index)

parse_command(tokens, index) ==
    LET Binary(first_expr, rhs) ==
            IF ~rhs.ok THEN rhs
            ELSE POk(Command(EIdentifier(OperatorName(tokens[first_expr.index].text)),
                             <<first_expr.val, rhs.val>>), rhs.index)
        Call(first_expr, args) ==
            IF ~args.ok THEN args ELSE POk(Command(first_expr.val, args.val), args.index)
        Target(first_expr) ==
            IF ~first_expr.ok THEN first_expr
            ELSE IF peek_kind(tokens, first_expr.index) = "Operator"
            THEN Binary(first_expr, parse_expression(tokens, first_expr.index + 1))
            ELSE Call(first_expr, parse_args(tokens, first_expr.index, <<>>))
    IN Target(parse_expression(tokens, index))

parse_args(tokens, index0, args) ==
    LET Push(e) ==
            IF ~e.ok THEN e ELSE parse_args(tokens, e.index, Append(args, e.val))
        At(index) ==
            IF peek_kind(tokens, index) = "Pipe" \/ is_eof(tokens, index)
            THEN POk(args, index)
            ELSE Push(parse_expression(tokens, index))
    IN At(skip_commas(tokens, index0))

parse_expression(tokens, index) ==
    LET Variable(token, r) ==
            IF Len(r.parts) > 1 THEN POk(EField(r.parts), r.index)
            ELSE POk(EVariable(token.text), r.index)
        Match(token) ==
            CASE token.kind = "Identifier" ->
                   IF StartsWith(token.text, "$")
                   THEN Variable(token, extend_field_segments(tokens, index + 1,
                                                              <<token.text>>, token.span))
                   ELSE POk(EIdentifier(token.text), index + 1)
              [] token.kind = "Dot" -> parse_field(tokens, index + 1)
              [] token.kind = "StringLiteral" -> POk(EStringLiteral(token.text), index + 1)
              [] token.kind = "NumberLiteral" -> POk(ENumberLiteral(token.text), index + 1)
              [] token.kind = "Keyword" ->
                   CASE token.text = "nil" -> POk(ENil, index + 1)
                     [] token.text = "true" -> POk(EBoolLiteral(TRUE), index + 1)
                     [] token.text = "false" -> POk(EBoolLiteral(FALSE), index + 1)
                     [] OTHER -> POk(EIdentifier(token.text), index + 1)
              [] token.kind = "LeftParen" -> parse_parenthesized_pipeline(tokens, index + 1)
              [] OTHER -> PErr("unexpected token in expression: " \o token.kind,
                               Some(token.span), index + 1)
    IN IF is_eof(tokens, index) THEN PErr("unexpected end of action", None, index)
       ELSE Match(tokens[index])

\* Called with index after the LeftParen token.
parse_parenthesized_pipeline(tokens, index) ==
    LET Wrap(end, sub) ==
            IF ~sub.ok THEN PErr(sub.error.message, sub.error.span, index)
            ELSE IF sub.val.declarations # None
            THEN PErr("pipeline declarations not allowed in expression",
                      Some(tokens[index - 1].span), index)
            ELSE POk(EPipelineExpr(sub.val), end + 1)
        Inner(end) ==
            IF end > Len(tokens) THEN PErr("expected ')'", None, index)
            ELSE IF end = index
            THEN PErr("empty pipeline", Some(tokens[index - 1].span), index)
            ELSE Wrap(end, parse_pipeline(SubSeq(tokens, index, end - 1), 1))
    IN Inner(matching_paren(tokens, index, 1))

parse_action_pipeline(tokens) == parse_pipeline(tokens, 1)

\* ------------------------------------------------------------------------
\* Template parser (parser.rs, parse_template)
\* ------------------------------------------------------------------------

TextNode(span, text) == [type |-> "Text", span |-> span, text |-> text]

CommentNode(span, text, trim_left, trim_right) ==
    [type |-> "Comment", span |-> span, text |-> text,
     trim_left |-> trim_left, trim_right |-> trim_right]

ActionNode(span, source, tokens, pipeline, trim_left, trim_right) ==
    [type |-> "Action", span |-> span, source |-> source, tokens |-> tokens,
     pipeline |-> pipeline, trim_left |-> trim_left, trim_right |-> trim_right]

\* A block is the sequence Block.nodes; else_block is an Option<Block>.
IfNode(span, tokens, pipeline, then_block, else_if_branches, else_block) ==
    [type |-> "If", span |-> span, tokens |-> tokens, pipeline |-> pipeline,
     then_block |-> then_block, else_if_branches |-> else_if_branches,
     else_block |-> else_block]

ElseIfBranch(span, tokens, pipeline, block) ==
    [span |-> span, tokens |-> tokens, pipeline |-> pipeline, block |-> block]

RangeNode(span, tokens, pipeline, then_block, else_block) ==
    [type |-> "Range", span |-> span, tokens |-> tokens, pipeline |-> pipeline,
     then_block |-> then_block, else_block |-> else_block]

WithNode(span, tokens, pipeline, then_block, else_block) ==
    [type |-> "With", span |-> span, tokens |-> tokens, pipeline |-> pipeline,
     then_block |-> then_block, else_block |-> else_block]

\* kind is "If", "Range" or "With"
ControlFrame(kind, span, tokens, pipeline) ==
    [kind |-> kind, start_span |-> span, tokens |-> tokens, pipeline |-> pipeline,
     then_block |-> <<>>, else_block |-> None]

\* AppendTarget: Root, Then(idx), Else(idx); idx is the 0-based index of the
\* frame in control_stack, as in the code.
TargetRoot == [kind |-> "Root", idx |-> 0]

TargetThen(idx) == [kind |-> "Then", idx |-> idx]

TargetElse(idx) == [kind |-> "Else", idx |-> idx]

\* Offset of the first "{{" at or after from, or -1.
find_action_start(bytes, from) ==
    LET hits == {k \in from..(Len(bytes) - 2) :
                    Byte(bytes, k) = "{" /\ Byte(bytes, k + 1) = "{"}
    IN IF hits = {} THEN -1 ELSE CHOOSE k \in hits : \A m \in hits : k <= m

\* Offset of the first byte at or after i that is one of chars, or the
\* length of bytes: the loop passes over every other byte unchanged.
skip_to(bytes, i, chars) ==
    LET hits == {k \in i..(Len(bytes) - 1) : Byte(bytes, k) \in chars} IN
    IF hits = {} THEN Len(bytes) ELSE CHOOSE k \in hits : \A m \in hits : k <= m

\* Offset of the closing "}}" of the action whose body starts at from, or -1.
\* mode is "code", "raw", "string" or "comment".
RECURSIVE find_action_end_from(_, _, _)
find_action_end_from(bytes, from, mode) ==
    LET i == skip_to(bytes, from,
                     CASE mode = "comment" -> {"*"}
                       [] mode = "raw" -> {BackTick}
                       [] mode = "string" -> {"\\", "\""}
                       [] OTHER -> {"/", BackTick, "\"", "}"})
    IN
    IF ~(i + 1 < Len(bytes)) THEN -1
    ELSE LET current == Byte(bytes, i)
             next == Byte(bytes, i + 1)
         IN
         CASE mode = "comment" ->
                IF current = "*" /\ next = "/"
                THEN find_action_end_from(bytes, i + 2, "code")
                ELSE find_action_end_from(bytes, i + 1, "comment")
           [] mode = "raw" ->
                find_action_end_from(bytes, i + 1, IF current = BackTick THEN "code" ELSE "raw")
           [] mode = "string" ->
                IF current = "\\" THEN find_action_end_from(bytes, i + 2, "string")
                ELSE find_action_end_from(bytes, i + 1,
                                          IF current = "\"" THEN "code" ELSE "string")
           [] OTHER ->
                IF current = "/" /\ next = "*" THEN find_action_end_from(bytes, i + 2, "comment")
                ELSE IF current = BackTick THEN find_action_end_from(bytes, i + 1, "raw")
                ELSE IF current = "\"" THEN find_action_end_from(bytes, i + 1, "string")
                ELSE IF current = "}" /\ next = "}" THEN i
                ELSE find_action_end_from(bytes, i + 1, "code")

\* the first "}}" at or after from, wherever it is
find_action_end_anywhere(bytes, from) ==
    IF {k \in from..(Len(bytes) - 2) : Byte(bytes, k) = "}" /\ Byte(bytes, k + 1) = "}"} = {}
    THEN -1
    ELSE CHOOSE k \in from..(Len(bytes) - 2) :
             /\ Byte(bytes, k) = "}" /\ Byte(bytes, k + 1) = "}"
             /\ \A m \in from..(k - 1) : ~(Byte(bytes, m) = "}" /\ Byte(bytes, m + 1) = "}")

find_action_end(bytes, from) == find_action_end_from(bytes, from, "code")

trim_action_delimiters(source, open, close) ==
    LET trim_left == open + 2 < close /\ Byte(source, open + 2) = "-"
        body_start0 == IF trim_left THEN open + 3 ELSE open + 2
        trim_right == body_start0 < close /\ Byte(source, close - 1) = "-"
        body_end == IF trim_right THEN close - 1 ELSE close
        Window(raw, trimmed_start) ==
            [span |-> Span(open, close + 2),
             body_start |-> body_start0 + (Len(raw) - Len(trimmed_start)),
             body |-> trim_end(trimmed_start),
             trim_left |-> trim_left,
             trim_right |-> trim_right]
        Raw(raw) == Window(raw, trim_start(raw))
    IN Raw(Slice(source, body_start0, body_end))

classify_action(tokens) ==
    LET first == tokens[1]
        Kind(k) == [ok |-> TRUE, kind |-> k, error |-> NoError]
        Fail(m, sp) == [ok |-> FALSE, kind |-> "", error |-> ParseError(m, Some(sp))]
    IN
    IF first.kind # "Keyword" THEN Kind("Regular")
    ELSE CASE first.text = "if" ->
                IF Len(tokens) < 2 THEN Fail("if requires a pipeline", first.span)
                ELSE Kind("If")
           [] first.text = "range" ->
                IF Len(tokens) < 2 THEN Fail("range requires a pipeline", first.span)
                ELSE Kind("Range")
           [] first.text = "with" ->
                IF Len(tokens) < 2 THEN Fail("with requires a pipeline", first.span)
                ELSE Kind("With")
           [] first.text = "else" ->
                IF Len(tokens) > 1 THEN Fail("else-if is not yet supported", tokens[2].span)
                ELSE Kind("Else")
           [] first.text = "end" ->
                IF Len(tokens) > 1 THEN Fail("unexpected tokens after end", tokens[2].span)
                ELSE Kind("End")
           [] OTHER -> Kind("Regular")

RECURSIVE strip_trailing_trim_space(_)
strip_trailing_trim_space(text) ==
    IF Len(text) > 0 /\ is_trim_space(Byte(text, Len(text) - 1))
    THEN strip_trailing_trim_space(Slice(text, 0, Len(text) - 1))
    ELSE text

\* the trim that removes one byte of whitespace
trim_trailing_whitespace_once(block) ==
    IF Len(block) > 0 /\ block[Len(block)].type = "Text"
         /\ Len(block[Len(block)].text) > 0
         /\ is_trim_space(Byte(block[Len(block)].text, Len(block[Len(block)].text) - 1))
    THEN [block EXCEPT ![Len(block)].text = Slice(@, 0, Len(@) - 1)]
    ELSE block

trim_trailing_whitespace(block) ==
    IF Len(block) > 0 /\ block[Len(block)].type = "Text"
    THEN [block EXCEPT ![Len(block)].text = strip_trailing_trim_space(@)]
    ELSE block

\* the skip that stops after one byte
skip_leading_whitespace_once(bytes, index) ==
    IF index < Len(bytes) /\ is_trim_space(Byte(bytes, index)) THEN index + 1 ELSE index

RECURSIVE skip_leading_whitespace(_, _)
skip_leading_whitespace(bytes, index) ==
    IF index < Len(bytes) /\ is_trim_space(Byte(bytes, index))
    THEN skip_leading_whitespace(bytes, index + 1)
    ELSE index

is_potential_comment(body) == StartsWith(trim(body), "/*")

is_comment(body) == StartsWith(trim(body), "/*") /\ EndsWith(trim(body), "*/")

strip_comment(body) ==
    LET Strip(trimmed) ==
            IF StartsWith(trimmed, "/*") /\ EndsWith(Slice(trimmed, 2, Len(trimmed)), "*/")
            THEN trim(Slice(trimmed, 2, Len(trimmed) - 2))
            ELSE body
    IN Strip(trim(body))

\* The parser's state: the locals of parse_template.  status is "running"
\* while the loop runs, "finishing" once it was left, then "ok", "err", or
\* "panic" (an expect() that failed).
ParserInit(source) ==
    [source |-> source, cursor |-> 0, root |-> <<>>, control_stack |-> <<>>,
     target_stack |-> <<TargetRoot>>, status |-> "running", error |-> NoError]

PFail(p, error) == [p EXCEPT !.status = "err", !.error = error]

current_target(p) ==
    IF p.target_stack = <<>> THEN TargetRoot ELSE p.target_stack[Len(p.target_stack)]

\* Whether current_block_mut would index out of bounds or hit its expect().
current_block_panics(p) ==
    LET t == current_target(p) IN
    /\ t.kind # "Root"
    /\ \/ t.idx + 1 > Len(p.control_stack)
       \/ t.kind = "Else" /\ p.control_stack[t.idx + 1].else_block = None

current_block(p) ==
    LET t == current_target(p) IN
    CASE t.kind = "Root" -> p.root
      [] t.kind = "Then" -> p.control_stack[t.idx + 1].then_block
      [] t.kind = "Else" -> p.control_stack[t.idx + 1].else_block[1]

\* p with the block current_block_mut points at replaced by block.
with_current_block(p, block) ==
    LET t == current_target(p) IN
    IF current_block_panics(p) THEN [p EXCEPT !.status = "panic"]
    ELSE CASE t.kind = "Root" -> [p EXCEPT !.root = block]
           [] t.kind = "Then" -> [p EXCEPT !.control_stack[t.idx + 1].then_block = block]
           [] t.kind = "Else" ->
                [p EXCEPT !.control_stack[t.idx + 1].else_block = Some(block)]

push_node(p, node) ==
    IF current_block_panics(p) THEN [p EXCEPT !.status = "panic"]
    ELSE with_current_block(p, Append(current_block(p), node))

\* the push whose target names the bottom frame
push_control_frame_bottom(p, frame) ==
    [p EXCEPT !.control_stack = Append(@, frame),
              !.target_stack = Append(@, TargetThen(0))]

push_control_frame(p, frame) ==
    [p EXCEPT !.control_stack = Append(@, frame),
              !.target_stack = Append(@, TargetThen(Len(p.control_stack)))]

handle_else(p, span) ==
    LET n == Len(p.target_stack)
        current == p.target_stack[n]
    IN
    IF n <= 1 THEN PFail(p, ParseError("unexpected else", Some(span)))
    ELSE IF current.kind = "Else"
    THEN PFail(p, ParseError("duplicate else block", Some(span)))
    ELSE IF current.kind = "Root"
    THEN PFail(p, ParseError("unexpected else", Some(span)))
    ELSE IF current.idx + 1 > Len(p.control_stack)
    THEN PFail(p, ParseError("mismatched else", Some(span)))
    ELSE IF p.control_stack[current.idx + 1].else_block # None
    THEN PFail(p, ParseError("multiple else blocks", Some(span)))
    ELSE [p EXCEPT !.control_stack[current.idx + 1].else_block = Some(<<>>),
                   !.target_stack[n] = TargetElse(current.idx)]

close_control_frame(p, span) ==
    LET n == Len(p.target_stack)
        m == Len(p.control_stack)
        Node(frame, full_span) ==
            CASE frame.kind = "If" ->
                   IfNode(full_span, frame.tokens, frame.pipeline,
                          frame.then_block, <<>>, frame.else_block)
              [] frame.kind = "Range" ->
                   RangeNode(full_span, frame.tokens, frame.pipeline,
                             frame.then_block, frame.else_block)
              [] frame.kind = "With" ->
                   WithNode(full_span, frame.tokens, frame.pipeline,
                            frame.then_block, frame.else_block)
        Close(top, popped, frame) ==
            IF top.kind = "Root" THEN PFail(popped, ParseError("unexpected end", Some(span)))
            ELSE IF m <= top.idx THEN PFail(popped, ParseError("mismatched end", Some(span)))
            ELSE IF m - 1 # top.idx
            THEN PFail(popped, ParseError("nested block closed out of order", Some(span)))
            ELSE push_node([popped EXCEPT !.control_stack = SubSeq(@, 1, m - 1)],
                           Node(frame, Span(frame.start_span.start, span.end)))
    IN IF n = 0 THEN PFail(p, ParseError("unexpected end", Some(span)))
       ELSE Close(p.target_stack[n], [p EXCEPT !.target_stack = SubSeq(@, 1, n - 1)],
                  IF m = 0 THEN <<>> ELSE p.control_stack[m])

\* cursor = close + 2, then past the whitespace a right trim marker strips.
advance_cursor(p, close, window) ==
    IF p.status # "running" THEN p
    ELSE [p EXCEPT !.cursor = IF window.trim_right
                              THEN skip_leading_whitespace(p.source, close + 2)
                              ELSE close + 2]

open_control_push(p, kind, window, condition_tokens, condition_pipeline) ==
    IF ~condition_pipeline.ok THEN PFail(p, condition_pipeline.error)
    ELSE push_control_frame(p, ControlFrame(kind, window.span, condition_tokens,
                                            condition_pipeline.val))

open_control(p, kind, window, tokens) ==
    open_control_push(p, kind, window, SubSeq(tokens, 2, Len(tokens)),
                      parse_action_pipeline(SubSeq(tokens, 2, Len(tokens))))

regular_action_push(p, window, tokens, pipeline) ==
    IF ~pipeline.ok THEN PFail(p, pipeline.error)
    ELSE push_node(p, ActionNode(window.span, window.body, tokens, pipeline.val,
                                 window.trim_left, window.trim_right))

regular_action(p, window, tokens) ==
    regular_action_push(p, window, tokens, parse_action_pipeline(tokens))

\* The match on the classified action, then the cursor update.
handle_action_dispatch(close, window, trimmed, tokens, kind) ==
    IF ~kind.ok THEN PFail(trimmed, kind.error)
    ELSE advance_cursor(
           CASE kind.kind \in {"If", "Range", "With"} ->
                  open_control(trimmed, kind.kind, window, tokens)
             [] kind.kind = "Else" -> handle_else(trimmed, window.span)
             [] kind.kind = "End" -> close_control_frame(trimmed, window.span)
             [] OTHER -> regular_action(trimmed, window, tokens),
           close, window)

handle_action_lexed(close, window, trimmed, lexed) ==
    IF ~lexed.ok THEN PFail(trimmed, lexed.error)
    ELSE IF lexed.tokens = <<>>
    THEN PFail(trimmed, ParseError("empty action", Some(window.span)))
    ELSE handle_action_dispatch(close, window, trimmed, lexed.tokens,
                                classify_action(lexed.tokens))

\* A comment becomes a Comment node; anything else is lexed and dispatched.
handle_action_body(close, window, trimmed) ==
    IF trimmed.status # "running" THEN trimmed
    ELSE IF is_potential_comment(window.body) /\ ~EndsWith(window.body, "*/")
    THEN PFail(trimmed, ParseError("unclosed comment", Some(window.span)))
    ELSE IF is_comment(window.body)
    THEN advance_cursor(
           push_node(trimmed, CommentNode(window.span, strip_comment(window.body),
                                          window.trim_left, window.trim_right)),
           close, window)
    ELSE handle_action_lexed(close, window, trimmed,
                             lex_action(window.body, window.body_start))

\* A left trim marker strips the whitespace that ends the current block.
handle_action_trim(p, window) ==
    IF ~window.trim_left THEN p
    ELSE IF current_block_panics(p) THEN [p EXCEPT !.status = "panic"]
    ELSE with_current_block(p, trim_trailing_whitespace(current_block(p)))

\* The Some(close) arm of the loop body.
handle_action_window(p, close, window) ==
    handle_action_body(close, window, handle_action_trim(p, window))

handle_action(p, open, close) ==
    handle_action_window(p, close, trim_action_delimiters(p.source, open, close))

unclosed_action_fail(p, span, remainder) ==
    IF StartsWith(remainder, "/*")
    THEN PFail(p, ParseError("unclosed comment", Some(span)))
    ELSE PFail(p, ParseError("unclosed action", Some(span)))

unclosed_action_after(p, span, after) ==
    unclosed_action_fail(p, span,
                         IF StartsWith(after, "-")
                         THEN trim_start(Slice(after, 1, Len(after)))
                         ELSE after)

\* The None arm: no closing delimiter before the end of the source.
unclosed_action(p, open) ==
    unclosed_action_after(p, Span(open, Len(p.source)),
                          trim_start(Slice(p.source, open + 2, Len(p.source))))

parse_iteration_action(q, open, close) ==
    IF q.status # "running" THEN q
    ELSE IF close = -1 THEN unclosed_action(q, open)
    ELSE handle_action(q, open, close)

parse_iteration_text(p, from, to) ==
    push_node(p, TextNode(Span(from, to), Slice(p.source, from, to)))

parse_iteration_rest(q) ==
    IF q.status = "running" THEN [q EXCEPT !.status = "finishing"] ELSE q

parse_iteration_found(p, open) ==
    IF open = -1
    THEN parse_iteration_rest(parse_iteration_text(p, p.cursor, Len(p.source)))
    ELSE parse_iteration_action(
           IF open > p.cursor THEN parse_iteration_text(p, p.cursor, open) ELSE p,
           open, find_action_end(p.source, open + 2))

\* One pass through the body of the while loop; p.cursor < Len(p.source).
parse_iteration(p) ==
    parse_iteration_found(p, find_action_start(p.source, p.cursor))

\* The code after the loop, with the outermost open frame reported.
parse_finish_check_outermost(q) ==
    IF q.status = "panic" THEN q
    ELSE IF q.control_stack # <<>>
    THEN PFail(q, ParseError("unterminated control structure",
                             Some(q.control_stack[1].start_span)))
    ELSE [q EXCEPT !.status = "ok"]

\* The code after the loop.
parse_finish_check(q) ==
    IF q.status = "panic" THEN q
    ELSE IF q.control_stack # <<>>
    THEN PFail(q, ParseError("unterminated control structure",
                             Some(q.control_stack[Len(q.control_stack)].start_span)))
    ELSE [q EXCEPT !.status = "ok"]

parse_finish(p) ==
    parse_finish_check(IF p.source = "" THEN push_node(p, TextNode(Span(0, 0), "")) ELSE p)

parse_looping(p) == p.status = "running" /\ p.cursor < Len(p.source)

parse_left_loop(p) ==
    p.status = "finishing" \/ (p.status = "running" /\ p.cursor >= Len(p.source))

RECURSIVE parse_run(_)
parse_run(p) ==
    IF parse_looping(p) THEN parse_run(parse_iteration(p))
    ELSE IF parse_left_loop(p) THEN parse_run(parse_finish(p))
    ELSE p

\* Result<Ast, Error>: status "ok" with the root block, or "err" with error.
parse_template(source) == parse_run(ParserInit(source))

\* ------------------------------------------------------------------------
\* Template::to_template_string (lib.rs, ast.rs)
\* ------------------------------------------------------------------------

\* [String]::join
RECURSIVE join_from(_, _, _)
join_from(parts, sep, i) ==
    IF i > Len(parts) THEN ""
    ELSE IF i = Len(parts) THEN parts[i]
    ELSE parts[i] \o sep \o join_from(parts, sep, i + 1)

join(parts, sep) == join_from(parts, sep, 1)

RECURSIVE pipeline_to_string(_)
RECURSIVE expression_to_string(_)
RECURSIVE commands_to_string(_, _)
RECURSIVE args_to_string(_, _)

expression_to_string(expr) ==
    CASE expr.kind = "Identifier" -> expr.name
      [] expr.kind = "Field" ->
            IF expr.parts = <<>> THEN "." ELSE "." \o join(expr.parts, ".")
      [] expr.kind = "Variable" -> expr.name
      [] expr.kind = "PipelineExpr" -> "(" \o pipeline_to_string(expr.pipeline) \o ")"
      [] expr.kind = "StringLiteral" -> "\"" \o expr.value \o "\""
      [] expr.kind = "NumberLiteral" -> expr.text
      [] expr.kind = "BoolLiteral" -> IF expr.flag THEN "true" ELSE "false"
      [] OTHER -> "nil"

args_to_string(args, i) ==
    IF i > Len(args) THEN ""
    ELSE " " \o expression_to_string(args[i]) \o args_to_string(args, i + 1)

commands_to_string(commands, idx) ==
    IF idx > Len(commands) THEN ""
    ELSE (IF idx > 1 THEN " | " ELSE "")
           \o expression_to_string(commands[idx].target)
           \o args_to_string(commands[idx].args, 1)
           \o commands_to_string(commands, idx + 1)

declarations_to_string(declarations) ==
    IF declarations = None THEN ""
    ELSE join(declarations[1].variables, ", ")
           \o (IF declarations[1].kind = "Declare" THEN " := " ELSE " = ")

pipeline_to_string(pipeline) ==
    declarations_to_string(pipeline.declarations) \o commands_to_string(pipeline.commands, 1)

ActionNode_to_template_fragment(action) ==
    "{{" \o (IF action.trim_left THEN "-" ELSE "") \o action.source
         \o (IF action.trim_right THEN "-" ELSE "") \o "}}"

CommentNode_to_template_fragment(comment) ==
    "{{" \o (IF comment.trim_left THEN "-" ELSE "") \o "/*" \o comment.text \o "*/"
         \o (IF comment.trim_right THEN "-" ELSE "") \o "}}"

RECURSIVE write_block(_, _)
RECURSIVE write_else_if_branches(_, _)

write_else_block(else_block) ==
    IF else_block = None THEN "" ELSE "{{else}}" \o write_block(else_block[1], 1)

write_else_if_branches(branches, i) ==
    IF i > Len(branches) THEN ""
    ELSE "{{else if " \o pipeline_to_string(branches[i].pipeline) \o "}}"
           \o write_block(branches[i].block, 1)
           \o write_else_if_branches(branches, i + 1)

write_node(node) ==
    CASE node.type = "Text" -> node.text
      [] node.type = "Comment" -> CommentNode_to_template_fragment(node)
      [] node.type = "Action" -> ActionNode_to_template_fragment(node)
      [] node.type = "If" ->
            "{{if " \o pipeline_to_string(node.pipeline) \o "}}"
              \o write_block(node.then_block, 1)
              \o write_else_if_branches(node.else_if_branches, 1)
              \o write_else_block(node.else_block)
              \o "{{end}}"
      [] node.type = "Range" ->
            "{{range " \o pipeline_to_string(node.pipeline) \o "}}"
              \o write_block(node.then_block, 1)
              \o write_else_block(node.else_block)
              \o "{{end}}"
      [] OTHER ->
            "{{with " \o pipeline_to_string(node.pipeline) \o "}}"
              \o write_block(node.then_block, 1)
              \o write_else_block(node.else_block)
              \o "{{end}}"

\* the for loop of write_block, from node i on
write_block(nodes, i) ==
    IF i > Len(nodes) THEN "" ELSE write_node(nodes[i]) \o write_block(nodes, i + 1)

to_template_string(ast) == write_block(ast, 1)

\* ------------------------------------------------------------------------
\* Analyzer (analyze.rs)
\* ------------------------------------------------------------------------

\* registry is an Option<FunctionRegistry>, seen_vars a HashSet<(String, Span)>
Analyzer_new(registry) ==
    [registry |-> registry, variables |-> <<>>, functions |-> <<>>, templates |-> <<>>,
     controls |-> <<>>, issues |-> <<>>, has_template |-> FALSE, conservative |-> FALSE,
     seen_vars |-> {}]

ControlUsage(kind, span) == [kind |-> kind, span |-> span]

\* the TemplateAnalysis, without its version string
finish(an) ==
    [precision |-> IF an.conservative THEN "Conservative" ELSE "Precise",
     has_template_invocation |-> an.has_template,
     variables |-> an.variables, functions |-> an.functions, templates |-> an.templates,
     controls |-> an.controls, issues |-> an.issues]

\* an issue that is listed while the report stays Precise
mark_conservative_unflagged(an, message, span) ==
    [an EXCEPT !.issues = Append(@, [message |-> message, span |-> span])]

mark_conservative(an, message, span) ==
    [an EXCEPT !.conservative = TRUE,
               !.issues = Append(@, [message |-> message, span |-> span])]

RECURSIVE inspect_tokens(_, _, _)
inspect_tokens(an, tokens, i) ==
    IF i > Len(tokens) THEN an
    ELSE IF tokens[i].kind \in {"LeftBracket", "RightBracket", "Declare", "Assign"}
    THEN inspect_tokens(mark_conservative(an, "indexing or assignments are not fully analysed",
                                          Some(tokens[i].span)),
                        tokens, i + 1)
    ELSE inspect_tokens(an, tokens, i + 1)

record_variable(an, path, span, kind, certainty) ==
    IF <<path, span>> \in an.seen_vars THEN an
    ELSE [an EXCEPT !.seen_vars = @ \cup {<<path, span>>},
                    !.variables = Append(@, [path |-> path, span |-> span, kind |-> kind,
                                             certainty |-> certainty])]

record_function(an, name, span) ==
    [an EXCEPT !.functions =
        Append(@, [name |-> name, span |-> span,
                   source |-> IF an.registry # None /\ name \in an.registry[1]
                              THEN "Registered" ELSE "Unknown"])]

\* (name, indirect) of a template or block invocation
template_name(command) ==
    IF command.args # <<>> /\ command.args[1].kind = "StringLiteral"
    THEN [name |-> Some(command.args[1].value), indirect |-> FALSE]
    ELSE [name |-> None, indirect |-> TRUE]

record_template_push(an, span, is_block, called) ==
    [an EXCEPT !.templates = Append(@, [span |-> span, name |-> called.name,
                                        indirect |-> called.indirect]),
               !.controls = IF is_block THEN Append(@, ControlUsage("Block", span)) ELSE @]

record_template(an, command, span, is_block) ==
    record_template_push(
        IF template_name(command).indirect
        THEN mark_conservative([an EXCEPT !.has_template = TRUE],
                               "dynamic template invocation", Some(span))
        ELSE [an EXCEPT !.has_template = TRUE],
        span, is_block, template_name(command))

control_kind(name) ==
    CASE name = "if" -> Some("If")
      [] name = "range" -> Some("Range")
      [] name = "with" -> Some("With")
      [] name = "block" -> Some("Block")
      [] name = "define" -> Some("Define")
      [] name = "else" -> Some("Else")
      [] name = "end" -> Some("End")
      [] OTHER -> None

\* char::is_alphanumeric on the ASCII range, or '_'
is_word_char(c) == c \in Lower \/ c \in Upper \/ c = "_" \/ is_ascii_digit(c)

normalize_field(parts) ==
    IF parts = <<>> THEN [path |-> ".", certainty |-> "Certain"]
    ELSE [path |-> "." \o join(parts, "."),
          certainty |-> IF \A j \in 1..Len(parts) :
                              \A k \in 1..Len(parts[j]) : is_word_char(Byte(parts[j], k - 1))
                        THEN "Certain" ELSE "Uncertain"]

RECURSIVE collect_expr(_, _, _)
RECURSIVE visit_commands(_, _, _, _)
RECURSIVE collect_args(_, _, _, _)

visit_pipeline(an, pipeline, span) == visit_commands(an, pipeline.commands, 1, span)

collect_expr(an, expr, span) ==
    CASE expr.kind = "Field" ->
            record_variable(an, normalize_field(expr.parts).path, span, "Dot",
                            normalize_field(expr.parts).certainty)
      [] expr.kind = "Identifier" /\ StartsWith(expr.name, "$") ->
            record_variable(an, expr.name, span, "Dollar", "Certain")
      [] expr.kind = "PipelineExpr" -> visit_pipeline(an, expr.pipeline, span)
      [] expr.kind = "Variable" -> record_variable(an, expr.name, span, "Dollar", "Certain")
      [] OTHER -> an

collect_args(an, args, i, span) ==
    IF i > Len(args) THEN an
    ELSE collect_args(collect_expr(an, args[i], span), args, i + 1, span)

\* the match on command.target
visit_command_target(an, command, span) ==
    CASE command.target.kind = "Identifier" ->
            IF command.target.name \in {"template", "block"}
            THEN record_template(an, command, span, command.target.name = "block")
            ELSE IF control_kind(command.target.name) # None
            THEN [an EXCEPT !.controls =
                     Append(@, ControlUsage(control_kind(command.target.name)[1], span))]
            ELSE record_function(an, command.target.name, span)
      [] command.target.kind = "Variable" ->
            record_variable(an, command.target.name, span, "Dollar", "Certain")
      [] OTHER -> an

visit_command(an, command, span) ==
    collect_args(visit_command_target(collect_expr(an, command.target, span), command, span),
                 command.args, 1, span)

visit_commands(an, commands, i, span) ==
    IF i > Len(commands) THEN an
    ELSE visit_commands(visit_command(an, commands[i], span), commands, i + 1, span)

visit_action(an, action) ==
    visit_pipeline(inspect_tokens(an, action.tokens, 1), action.pipeline, action.span)

RECURSIVE walk_block(_, _, _)

walk_else_block(an, else_block) ==
    IF else_block = None THEN an ELSE walk_block(an, else_block[1], 1)

\* visit_if, visit_range and visit_with: the same code but for the kind
visit_control(an, node, kind) ==
    walk_else_block(
        walk_block(
            visit_pipeline(
                [inspect_tokens(an, node.tokens, 1) EXCEPT
                    !.controls = Append(@, ControlUsage(kind, node.span))],
                node.pipeline, node.span),
            node.then_block, 1),
        node.else_block)

visit_if(an, node) == visit_control(an, node, "If")

visit_range(an, node) == visit_control(an, node, "Range")

visit_with(an, node) == visit_control(an, node, "With")

walk_node(an, node) ==
    CASE node.type = "Action" -> visit_action(an, node)
      [] node.type = "If" -> visit_if(an, node)
      [] node.type = "Range" -> visit_range(an, node)
      [] node.type = "With" -> visit_with(an, node)
      [] OTHER -> an

\* the for loop of walk_block, from node i on
walk_block(an, nodes, i) ==
    IF i > Len(nodes) THEN an ELSE walk_block(walk_node(an, nodes[i]), nodes, i + 1)

analyze_template(ast, registry) == finish(walk_block(Analyzer_new(registry), ast, 1))

\* ------------------------------------------------------------------------
\* Values (serde_json::Value) and the value helpers of runtime.rs
\* ------------------------------------------------------------------------

\* A value is a pair <<tag, payload>>.  An object is the sequence of its
\* <<key, value>> entries in iteration order, keys distinct.  Floats are
\* kept as their decimal text; the model's integers are small.
VNull == <<"null", 0>>

VBool(b) == <<"bool", b>>

VNum(n) == <<"num", n>>

VFloat(text) == <<"float", text>>

VStr(s) == <<"str", s>>

VArr(items) == <<"arr", items>>

VObj(entries) == <<"obj", entries>>

Tag(v) == v[1]

Payload(v) == v[2]

\* Map::get: Option<Value>
RECURSIVE map_get_from(_, _, _)
map_get_from(entries, key, i) ==
    IF i > Len(entries) THEN None
    ELSE IF entries[i][1] = key THEN Some(entries[i][2])
    ELSE map_get_from(entries, key, i + 1)

map_get(entries, key) == map_get_from(entries, key, 1)

RECURSIVE nat_to_string(_)
nat_to_string(n) ==
    IF n < 10 THEN Digits[n + 1] ELSE nat_to_string(n \div 10) \o Digits[(n % 10) + 1]

int_to_string(n) == IF n < 0 THEN "-" \o nat_to_string(-n) ELSE nat_to_string(n)

DigitValue(c) == CHOOSE d \in 0..9 : Digits[d + 1] = c

RECURSIVE all_digits_from(_, _)
all_digits_from(text, i) ==
    IF i >= Len(text) THEN TRUE
    ELSE is_ascii_digit(Byte(text, i)) /\ all_digits_from(text, i + 1)

all_digits(text) == Len(text) > 0 /\ all_digits_from(text, 0)

RECURSIVE digits_value(_, _, _)
digits_value(text, i, acc) ==
    IF i >= Len(text) THEN acc
    ELSE digits_value(text, i + 1, acc * 10 + DigitValue(Byte(text, i)))

RECURSIVE index_of_from(_, _, _)
index_of_from(text, c, i) ==
    IF i >= Len(text) THEN -1
    ELSE IF Byte(text, i) = c THEN i ELSE index_of_from(text, c, i + 1)

index_of(text, c) == index_of_from(text, c, 0)

RECURSIVE strip_trailing_zeros(_)
strip_trailing_zeros(text) ==
    IF EndsWith(text, "0") THEN strip_trailing_zeros(Slice(text, 0, Len(text) - 1))
    ELSE text

\* f64::from_str on the texts read_number produces (digits and dots): one
\* dot with a digit on at least one side.  The value is kept as the text
\* f64's Display gives back: no leading zeros, at least one fraction digit.
float_parses(text) ==
    LET dot == index_of(text, ".") IN
    /\ dot >= 0
    /\ LET whole == Slice(text, 0, dot)
           frac == Slice(text, dot + 1, Len(text))
       IN /\ whole = "" \/ all_digits(whole)
          /\ frac = "" \/ all_digits(frac)
          /\ whole # "" \/ frac # ""

float_display(text) ==
    LET dot == index_of(text, ".")
        whole == Slice(text, 0, dot)
        frac == strip_trailing_zeros(Slice(text, dot + 1, Len(text)))
    IN nat_to_string(digits_value(whole, 0, 0)) \o "." \o (IF frac = "" THEN "0" ELSE frac)

\* parse_number: Option<Number>, here Option<Value>
parse_number(text) ==
    IF index_of(text, ".") = -1 /\ index_of(text, "e") = -1 /\ index_of(text, "E") = -1
       /\ all_digits(text)
    THEN Some(VNum(digits_value(text, 0, 0)))
    ELSE IF float_parses(text) THEN Some(VFloat(float_display(text)))
    ELSE None

float_is_zero(text) ==
    LET dot == index_of(text, ".") IN
    /\ digits_value(Slice(text, 0, dot), 0, 0) = 0
    /\ strip_trailing_zeros(Slice(text, dot + 1, Len(text))) = ""

RECURSIVE json_escape_from(_, _)
json_escape_from(text, i) ==
    IF i >= Len(text) THEN ""
    ELSE LET c == Byte(text, i)
             e == CASE c = "\"" -> "\\\""
                    [] c = "\\" -> "\\\\"
                    [] c = "\n" -> "\\n"
                    [] c = "\r" -> "\\r"
                    [] c = "\t" -> "\\t"
                    [] c = "\f" -> "\\f"
                    [] OTHER -> c
         IN e \o json_escape_from(text, i + 1)

json_string(text) == "\"" \o json_escape_from(text, 0) \o "\""

\* serde_json::to_string: the compact encoding
RECURSIVE to_json(_)
RECURSIVE to_json_items(_, _)
RECURSIVE to_json_entries(_, _)
to_json(v) ==
    CASE Tag(v) = "null" -> "null"
      [] Tag(v) = "bool" -> IF Payload(v) THEN "true" ELSE "false"
      [] Tag(v) = "num" -> int_to_string(Payload(v))
      [] Tag(v) = "float" -> Payload(v)
      [] Tag(v) = "str" -> json_string(Payload(v))
      [] Tag(v) = "arr" -> "[" \o to_json_items(Payload(v), 1) \o "]"
      [] Tag(v) = "obj" -> "{" \o to_json_entries(Payload(v), 1) \o "}"

to_json_items(items, i) ==
    IF i > Len(items) THEN ""
    ELSE (IF i > 1 THEN "," ELSE "") \o to_json(items[i]) \o to_json_items(items, i + 1)

to_json_entries(entries, i) ==
    IF i > Len(entries) THEN ""
    ELSE (IF i > 1 THEN "," ELSE "") \o json_string(entries[i][1]) \o ":"
         \o to_json(entries[i][2]) \o to_json_entries(entries, i + 1)

value_to_string(v) ==
    CASE Tag(v) = "null" -> ""
      [] Tag(v) = "bool" -> IF Payload(v) THEN "true" ELSE "false"
      [] Tag(v) = "num" -> int_to_string(Payload(v))
      [] Tag(v) = "float" ->
           LET z == strip_trailing_zeros(Payload(v)) IN
           IF EndsWith(z, ".") THEN Slice(z, 0, Len(z) - 1) ELSE z
      [] Tag(v) = "str" -> Payload(v)
      [] OTHER -> to_json(v)

is_truthy(v) ==
    CASE Tag(v) = "null" -> FALSE
      [] Tag(v) = "bool" -> Payload(v)
      [] Tag(v) = "num" -> Payload(v) # 0
      [] Tag(v) = "float" -> ~float_is_zero(Payload(v))
      [] Tag(v) = "str" -> Payload(v) # ""
      [] Tag(v) = "arr" -> Payload(v) # <<>>
      [] Tag(v) = "obj" -> Payload(v) # <<>>

RECURSIVE is_empty(_)
is_empty(v) ==
    CASE Tag(v) = "null" -> TRUE
      [] Tag(v) = "bool" -> ~Payload(v)
      [] Tag(v) = "num" -> Payload(v) = 0
      [] Tag(v) = "float" -> float_is_zero(Payload(v))
      [] Tag(v) = "str" -> Payload(v) = ""
      [] Tag(v) = "arr" -> \A i \in 1..Len(Payload(v)) : is_empty(Payload(v)[i])
      [] Tag(v) = "obj" -> Payload(v) = <<>>

\* ------------------------------------------------------------------------
\* Helper functions (the registry's entries)
\* ------------------------------------------------------------------------

HOk(v) == [ok |-> TRUE, val |-> v, error |-> NoError]

HErr(message) == [ok |-> FALSE, val |-> VNull, error |-> RenderError(message)]

RECURSIVE concat_values(_, _, _)
concat_values(args, i, sep) ==
    IF i > Len(args) THEN ""
    ELSE (IF i > 1 THEN sep ELSE "") \o value_to_string(args[i]) \o concat_values(args, i + 1, sep)

builtin_eq(args) ==
    IF Len(args) < 2 THEN HErr("eq expects two arguments")
    ELSE HOk(VBool(args[1] = args[2]))

builtin_print(args) == HOk(VStr(concat_values(args, 1, "")))

builtin_len(args) ==
    IF Len(args) # 1 THEN HErr("len expects exactly one argument")
    ELSE CASE Tag(args[1]) = "null" -> HOk(VNum(0))
           [] Tag(args[1]) \in {"str", "arr", "obj"} -> HOk(VNum(Len(Payload(args[1]))))
           [] OTHER -> HErr("len expects array, map, or string")

builtin_not(args) ==
    IF Len(args) # 1 THEN HErr("not expects exactly one argument")
    ELSE HOk(VBool(~is_truthy(args[1])))

expect_min_args(name, args, min) ==
    IF Len(args) < min
    THEN HErr(name \o " expected at least " \o nat_to_string(min) \o " arguments, got "
              \o nat_to_string(Len(args)))
    ELSE HOk(VNull)

default(args) ==
    LET chk == expect_min_args("default", args, 2) IN
    IF ~chk.ok THEN chk
    ELSE IF is_empty(args[2]) THEN HOk(args[1]) ELSE HOk(args[2])

fail(args) ==
    LET chk == expect_min_args("fail", args, 1) IN
    IF ~chk.ok THEN chk ELSE HErr(concat_values(args, 1, " "))

\* The registry the templates are rendered with: names of the helpers.
Registry == {"eq", "print", "len", "not", "default", "fail"}

\* func(self, &args) for the helper registered under name
call_function(name, args) ==
    CASE name = "eq" -> builtin_eq(args)
      [] name = "print" -> builtin_print(args)
      [] name = "len" -> builtin_len(args)
      [] name = "not" -> builtin_not(args)
      [] name = "default" -> default(args)
      [] name = "fail" -> fail(args)

\* ------------------------------------------------------------------------
\* EvalContext (runtime.rs)
\* ------------------------------------------------------------------------

\* A HashMap<String, Value> scope is a function from its keys to values.
scope_insert(scope, name, value) ==
    [k \in (DOMAIN scope) \cup {name} |-> IF k = name THEN value ELSE scope[k]]

EvalContext_new(data, functions) ==
    [stack |-> <<data>>, root |-> data,
     variables |-> <<[k \in {"$"} |-> data]>>, functions |-> functions]

\* a scope whose $ is the dot it is pushed under
new_scope_of_dot(ctx) == [k \in {"$"} |-> ctx.stack[Len(ctx.stack)]]

new_scope(ctx) == [k \in {"$"} |-> ctx.root]

push_scope(ctx, value) ==
    [ctx EXCEPT !.stack = Append(@, value), !.variables = Append(@, new_scope(ctx))]

\* a pop that takes the dot and leaves the scope of variables
pop_scope_keeps_variables(ctx) ==
    [ctx EXCEPT !.stack = IF Len(@) > 1 THEN SubSeq(@, 1, Len(@) - 1) ELSE @]

pop_scope(ctx) ==
    [ctx EXCEPT !.stack = IF Len(@) > 1 THEN SubSeq(@, 1, Len(@) - 1) ELSE @,
                !.variables = IF Len(@) > 1 THEN SubSeq(@, 1, Len(@) - 1) ELSE @]

\* An evaluation's outcome: the Result, and the helper invocations made on
\* the way, in order, each as <<name, args>>.
EOk(v, calls) == [ok |-> TRUE, val |-> v, error |-> NoError, calls |-> calls]

EErr(message, calls) ==
    [ok |-> FALSE, val |-> VNull, error |-> RenderError(message), calls |-> calls]

RECURSIVE resolve_identifier_from(_, _, _)
resolve_identifier_from(stack, name, i) ==
    IF i < 1 THEN VNull
    ELSE IF Tag(stack[i]) = "obj" /\ map_get(Payload(stack[i]), name) # None
         THEN map_get(Payload(stack[i]), name)[1]
         ELSE resolve_identifier_from(stack, name, i - 1)

\* the lookup that stops at the innermost dot
resolve_identifier_innermost(ctx, name) ==
    IF Tag(ctx.stack[Len(ctx.stack)]) = "obj"
       /\ map_get(Payload(ctx.stack[Len(ctx.stack)]), name) # None
    THEN map_get(Payload(ctx.stack[Len(ctx.stack)]), name)[1]
    ELSE VNull

resolve_identifier(ctx, name) == resolve_identifier_from(ctx.stack, name, Len(ctx.stack))

RECURSIVE resolve_variable_from(_, _, _)
resolve_variable_from(variables, name, i) ==
    IF i < 1 THEN VNull
    ELSE IF name \in DOMAIN variables[i] THEN variables[i][name]
    ELSE resolve_variable_from(variables, name, i - 1)

resolve_variable(ctx, name) ==
    IF name = "$" THEN ctx.root
    ELSE resolve_variable_from(ctx.variables, name, Len(ctx.variables))

\* str::parse::<usize>: an optional plus sign, then digits only
parses_usize(part) ==
    LET body == IF StartsWith(part, "+") THEN Slice(part, 1, Len(part)) ELSE part
    IN all_digits(body)

usize_value(part) ==
    LET body == IF StartsWith(part, "+") THEN Slice(part, 1, Len(part)) ELSE part
    IN digits_value(body, 0, 0)

project_map_entry(found) == HOk(IF found = None THEN VNull ELSE found[1])

project_array_item(items, index) ==
    HOk(IF index < Len(items) THEN items[index + 1] ELSE VNull)

project_field_segment_missing_fails(value, part) ==
    CASE Tag(value) = "obj" ->
           IF map_get(Payload(value), part) = None
           THEN HErr("cannot access field " \o part \o " on non-container value")
           ELSE project_map_entry(map_get(Payload(value), part))
      [] Tag(value) = "arr" ->
           IF ~parses_usize(part)
           THEN HErr("array index must be integer, got " \o part)
           ELSE project_array_item(Payload(value), usize_value(part))
      [] OTHER -> HErr("cannot access field " \o part \o " on non-container value")

project_field_segment(value, part) ==
    CASE Tag(value) = "obj" -> project_map_entry(map_get(Payload(value), part))
      [] Tag(value) = "arr" ->
           IF ~parses_usize(part)
           THEN HErr("array index must be integer, got " \o part)
           ELSE project_array_item(Payload(value), usize_value(part))
      [] OTHER -> HErr("cannot access field " \o part \o " on non-container value")

RECURSIVE project_parts(_, _, _)
project_parts_next(r, parts, i) ==
    IF ~r.ok THEN r ELSE project_parts(r.val, parts, i + 1)

project_parts(value, parts, i) ==
    IF i > Len(parts) THEN HOk(value)
    ELSE project_parts_next(project_field_segment(value, parts[i]), parts, i)

resolve_field(ctx, parts) ==
    IF ctx.stack = <<>> /\ (parts = <<>> \/ ~StartsWith(parts[1], "$"))
    THEN HErr("dot resolution failed")
    ELSE IF parts = <<>> THEN HOk(ctx.stack[Len(ctx.stack)])
    ELSE project_parts(IF StartsWith(parts[1], "$") THEN resolve_variable(ctx, parts[1])
                       ELSE ctx.stack[Len(ctx.stack)],
                       parts,
                       IF StartsWith(parts[1], "$") THEN 2 ELSE 1)

resolve_command_target(ctx, command) ==
    IF command.target.kind = "Identifier"
    THEN IF command.target.name \in ctx.functions THEN "Function" ELSE "Identifier"
    ELSE "Expression"

\* r, with the invocations made before it put behind its own
before_calls(calls, r) == [r EXCEPT !.calls = @ \o calls]

\* r, with the invocations made before it put in front of its own.
after_calls(calls, r) == [r EXCEPT !.calls = calls \o @]

RECURSIVE eval_pipeline(_, _)
RECURSIVE eval_commands(_, _, _, _, _)
RECURSIVE eval_command(_, _, _)
RECURSIVE eval_args(_, _, _, _, _)
RECURSIVE eval_expression(_, _)

eval_pipeline_rest(ctx, commands, first) ==
    IF ~first.ok THEN first
    ELSE eval_commands(ctx, commands, 2, first.val, first.calls)

eval_pipeline(ctx, pipeline) ==
    IF pipeline.commands = <<>> THEN EErr("empty pipeline", <<>>)
    ELSE eval_pipeline_rest(ctx, pipeline.commands,
                            eval_command(ctx, pipeline.commands[1], None))

eval_commands_next(ctx, commands, i, calls, r) ==
    IF ~r.ok THEN after_calls(calls, r)
    ELSE eval_commands(ctx, commands, i + 1, r.val, calls \o r.calls)

\* the for loop of eval_pipeline over the remaining commands
eval_commands(ctx, commands, i, value, calls) ==
    IF i > Len(commands) THEN EOk(value, calls)
    ELSE eval_commands_next(ctx, commands, i, calls,
                            eval_command(ctx, commands[i], Some(value)))

eval_args_next(ctx, exprs, i, acc, calls, r) ==
    IF ~r.ok THEN after_calls(calls, r)
    ELSE eval_args(ctx, exprs, i + 1, Append(acc, r.val), calls \o r.calls)

\* the argument loop of prepare_command_args for a registered function
eval_args(ctx, exprs, i, acc, calls) ==
    IF i > Len(exprs) THEN EOk(VArr(acc), calls)
    ELSE eval_args_next(ctx, exprs, i, acc, calls, eval_expression(ctx, exprs[i]))

\* the piped value goes before the explicit arguments
push_input_first(input, r) ==
    IF ~r.ok THEN r
    ELSE EOk(VArr(IF input # None THEN <<input[1]>> \o Payload(r.val)
                  ELSE Payload(r.val)), r.calls)

\* the piped value goes after the explicit arguments
push_input(input, r) ==
    IF ~r.ok THEN r
    ELSE EOk(VArr(IF input # None THEN Append(Payload(r.val), input[1])
                  ELSE Payload(r.val)), r.calls)

\* Ok carries the argument vector as an array value
prepare_command_args(ctx, command, input, resolution) ==
    CASE resolution = "Function" ->
           push_input(input, eval_args(ctx, command.args, 1, <<>>, <<>>))
      [] resolution = "Identifier" ->
           IF command.args # <<>> \/ input # None
           THEN EErr("unknown function \"" \o command.target.name \o "\"", <<>>)
           ELSE EOk(VArr(<<>>), <<>>)
      [] resolution = "Expression" ->
           IF command.args # <<>>
           THEN EErr("arguments supplied to non-function expression", <<>>)
           ELSE IF input # None
           THEN EErr("cannot pipe value into non-function expression", <<>>)
           ELSE EOk(VArr(<<>>), <<>>)

\* the helper's Result, with the invocation recorded
invoked(name, args, r) ==
    [ok |-> r.ok, val |-> r.val, error |-> r.error, calls |-> << <<name, args>> >>]

execute_prepared_command(ctx, command, resolution, args) ==
    IF resolution = "Function"
    THEN invoked(command.target.name, args, call_function(command.target.name, args))
    ELSE eval_expression(ctx, command.target)

eval_command_execute(ctx, command, resolution, args) ==
    IF ~args.ok THEN args
    ELSE after_calls(args.calls,
                     execute_prepared_command(ctx, command, resolution, Payload(args.val)))

eval_command_resolved(ctx, command, input, resolution) ==
    eval_command_execute(ctx, command, resolution,
                         prepare_command_args(ctx, command, input, resolution))

eval_command(ctx, command, input) ==
    eval_command_resolved(ctx, command, input, resolve_command_target(ctx, command))

without_calls(r) == [ok |-> r.ok, val |-> r.val, error |-> r.error, calls |-> <<>>]

number_literal(text, n) ==
    IF n = None THEN EErr("invalid number literal " \o text, <<>>) ELSE EOk(n[1], <<>>)

eval_expression(ctx, expr) ==
    CASE expr.kind = "Identifier" -> EOk(resolve_identifier(ctx, expr.name), <<>>)
      [] expr.kind = "Field" -> without_calls(resolve_field(ctx, expr.parts))
      [] expr.kind = "Variable" -> EOk(resolve_variable(ctx, expr.name), <<>>)
      [] expr.kind = "PipelineExpr" ->
           IF expr.pipeline.declarations # None
           THEN EErr("pipeline declarations not allowed in expression", <<>>)
           ELSE eval_pipeline(ctx, expr.pipeline)
      [] expr.kind = "StringLiteral" -> EOk(VStr(expr.value), <<>>)
      [] expr.kind = "NumberLiteral" -> number_literal(expr.text, parse_number(expr.text))
      [] expr.kind = "BoolLiteral" -> EOk(VBool(expr.flag), <<>>)
      [] expr.kind = "Nil" -> EOk(VNull, <<>>)

\* Results of the binding operations: the context as the call leaves it
\* (changes made before an error stay made) and the Result.
COk(ctx) == [ok |-> TRUE, ctx |-> ctx, error |-> NoError]

CErr(ctx, message) == [ok |-> FALSE, ctx |-> ctx, error |-> RenderError(message)]

RECURSIVE assign_from(_, _, _, _)
assign_from(variables, name, value, i) ==
    IF i < 1 THEN None
    ELSE IF name \in DOMAIN variables[i]
         THEN Some([variables EXCEPT ![i] = scope_insert(@, name, value)])
         ELSE assign_from(variables, name, value, i - 1)

set_variable_assign(ctx, name, found) ==
    IF found = None THEN CErr(ctx, "variable " \o name \o " not defined")
    ELSE COk([ctx EXCEPT !.variables = found[1]])

set_variable(ctx, name, kind, value) ==
    IF name = "$" THEN CErr(ctx, "cannot assign to root variable")
    ELSE IF kind = "Declare"
    THEN COk([ctx EXCEPT !.variables[Len(ctx.variables)] = scope_insert(@, name, value)])
    ELSE set_variable_assign(ctx, name,
                             assign_from(ctx.variables, name, value, Len(ctx.variables)))

\* the loops of apply_bindings: values gives the value for the idx-th name
RECURSIVE set_variables(_, _, _, _, _)
set_variables_next(r, names, kind, values, i) ==
    IF ~r.ok THEN r ELSE set_variables(r.ctx, names, kind, values, i + 1)

set_variables(ctx, names, kind, values, i) ==
    IF i > Len(names) THEN COk(ctx)
    ELSE set_variables_next(set_variable(ctx, names[i], kind, values[i]),
                            names, kind, values, i)

apply_bindings_to(ctx, decls, value) ==
    IF Len(decls.variables) = 0 THEN COk(ctx)
    ELSE set_variables(ctx, decls.variables, decls.kind,
             [idx \in 1..Len(decls.variables) |->
                 IF Len(decls.variables) = 1 \/ Tag(value) # "arr" THEN value
                 ELSE IF idx <= Len(Payload(value)) THEN Payload(value)[idx]
                 ELSE VNull], 1)

apply_bindings(ctx, pipeline, value) ==
    IF pipeline.declarations = None THEN COk(ctx)
    ELSE apply_bindings_to(ctx, pipeline.declarations[1], value)

RECURSIVE predeclare_from(_, _, _)
predeclare_from(scope, names, i) ==
    IF i > Len(names) THEN scope
    ELSE predeclare_from(IF names[i] \in DOMAIN scope THEN scope
                         ELSE scope_insert(scope, names[i], VNull), names, i + 1)

predeclare_bindings(ctx, pipeline) ==
    IF pipeline.declarations # None /\ pipeline.declarations[1].kind = "Declare"
    THEN [ctx EXCEPT !.variables[Len(ctx.variables)] =
              predeclare_from(@, pipeline.declarations[1].variables, 1)]
    ELSE ctx

\* the first name takes the value and the second the key
assign_value_key(ctx, decls, key, value) ==
    set_variables(ctx, SubSeq(decls.variables, 1, 2), decls.kind,
                  <<value, IF key = None THEN VNull ELSE key[1]>>, 1)

\* the arm for two or more names: the first takes the key, the second the value
assign_key_value(ctx, decls, key, value) ==
    set_variables(ctx, SubSeq(decls.variables, 1, 2), decls.kind,
                  <<IF key = None THEN VNull ELSE key[1], value>>, 1)

assign_range_bindings(ctx, pipeline, key, value) ==
    IF pipeline.declarations = None \/ Len(pipeline.declarations[1].variables) = 0
    THEN COk(ctx)
    ELSE IF Len(pipeline.declarations[1].variables) = 1
    THEN set_variable(ctx, pipeline.declarations[1].variables[1],
                      pipeline.declarations[1].kind, value)
    ELSE assign_key_value(ctx, pipeline.declarations[1], key, value)

\* ------------------------------------------------------------------------
\* The slice helper (lithos-gotmpl-core lib.rs)
\* ------------------------------------------------------------------------

\* char::len_utf8 for the characters of the strings that are sliced
len_utf8(c) == IF c = "é" THEN 2 ELSE 1

\* the byte offset at which the character after the first k starts
RECURSIVE byte_offset(_, _)
byte_offset(s, k) == IF k = 0 THEN 0 ELSE byte_offset(s, k - 1) + len_utf8(Byte(s, k - 1))

\* str::len: the length in bytes
str_len(s) == byte_offset(s, Len(s))

is_char_boundary(s, index) == \E k \in 0..Len(s) : byte_offset(s, k) = index

chars_before(s, index) == CHOOSE k \in 0..Len(s) : byte_offset(s, k) = index

\* str::get(start..end)
str_get(s, start, end) ==
    IF start <= end /\ is_char_boundary(s, start) /\ is_char_boundary(s, end)
    THEN Some(Slice(s, chars_before(s, start), chars_before(s, end)))
    ELSE None

\* bounds that are clamped to the length rather than refused
slice_bounds_clamped(indices, len) ==
    LET end == IF Len(indices) >= 2 /\ indices[2] <= len THEN indices[2] ELSE len
        start == IF Len(indices) >= 1 THEN indices[1] ELSE 0
    IN HOk(<<IF start <= end THEN start ELSE end, end>>)

slice_bounds(indices, len) ==
    IF (IF Len(indices) >= 1 THEN indices[1] ELSE 0)
          > (IF Len(indices) >= 2 THEN indices[2] ELSE len)
       \/ (IF Len(indices) >= 2 THEN indices[2] ELSE len) > len
    THEN HErr("slice indices out of range")
    ELSE HOk(<<IF Len(indices) >= 1 THEN indices[1] ELSE 0,
               IF Len(indices) >= 2 THEN indices[2] ELSE len>>)

\* the closure that parse_slice_indices maps over its arguments
parse_slice_index(arg) ==
    CASE Tag(arg) = "num" /\ Payload(arg) >= 0 -> HOk(Payload(arg))
      [] Tag(arg) = "str" /\ parses_usize(Payload(arg)) -> HOk(usize_value(Payload(arg)))
      [] OTHER -> HErr("slice indices must be non-negative integers")

\* collect::<Result<Vec<usize>, Error>>(): the first error, or all indices
RECURSIVE collect_slice_indices(_, _, _)
collect_slice_indices_next(r, indices, i, parsed) ==
    IF ~r.ok THEN r ELSE collect_slice_indices(indices, i + 1, Append(parsed, r.val))

collect_slice_indices(indices, i, parsed) ==
    IF i > Len(indices) THEN HOk(parsed)
    ELSE collect_slice_indices_next(parse_slice_index(indices[i]), indices, i, parsed)

parse_slice_indices_parsed(parsed, len) ==
    IF ~parsed.ok THEN parsed
    ELSE IF Len(parsed.val) > 2 THEN HErr("slice supports at most two indices")
    ELSE slice_bounds(parsed.val, len)

parse_slice_indices(indices, len) ==
    parse_slice_indices_parsed(collect_slice_indices(indices, 1, <<>>), len)

slice_string_of(s, bounds) ==
    IF ~bounds.ok THEN bounds
    ELSE IF str_get(s, bounds.val[1], bounds.val[2]) = None
    THEN HErr("slice indices not on char boundaries")
    ELSE HOk(VStr(str_get(s, bounds.val[1], bounds.val[2])[1]))

slice_array_of(list, bounds) ==
    IF ~bounds.ok THEN bounds
    ELSE HOk(VArr(SubSeq(list, bounds.val[1] + 1, bounds.val[2])))

builtin_slice(args) ==
    IF args = <<>> THEN HErr("slice expects at least one argument")
    ELSE CASE Tag(args[1]) = "str" ->
                slice_string_of(Payload(args[1]),
                                parse_slice_indices(Tail(args), str_len(Payload(args[1]))))
           [] Tag(args[1]) = "arr" ->
                slice_array_of(Payload(args[1]),
                               parse_slice_indices(Tail(args), Len(Payload(args[1]))))
           [] Tag(args[1]) = "null" -> HOk(VArr(<<>>))
           [] OTHER -> HErr("slice expects string or array as first argument")

\* ------------------------------------------------------------------------
\* EvalContextHot (runtime_hot.rs)
\* ------------------------------------------------------------------------

\* A ValueSlot (Borrowed, Owned or Temp) is modelled by the value that
\* as_value gives: whether it is borrowed cannot be observed.
EvalContextHot_new(root, functions) ==
    [root |-> root, stack |-> <<root>>,
     variables |-> <<[k \in {"$"} |-> root]>>, functions |-> functions]

push_scope_slot(ctx, slot) ==
    [ctx EXCEPT !.stack = Append(@, slot),
                !.variables = Append(@, [k \in {"$", "."} |->
                                            IF k = "$" THEN ctx.root ELSE slot])]

hot_pop_scope(ctx) ==
    [ctx EXCEPT !.stack = IF Len(@) > 1 THEN SubSeq(@, 1, Len(@) - 1) ELSE @,
                !.variables = IF Len(@) > 1 THEN SubSeq(@, 1, Len(@) - 1) ELSE @]

assign_variable_assign(ctx, name, found) ==
    IF found = None THEN CErr(ctx, "variable " \o name \o " not defined")
    ELSE COk([ctx EXCEPT !.variables = found[1]])

assign_variable(ctx, name, kind, value) ==
    IF name = "$" THEN CErr(ctx, "cannot assign to root variable")
    ELSE IF kind = "Declare"
    THEN IF ctx.variables = <<>> THEN CErr(ctx, "scope stack is empty")
         ELSE COk([ctx EXCEPT !.variables[Len(ctx.variables)] =
                       scope_insert(@, name, value)])
    ELSE assign_variable_assign(ctx, name,
                                assign_from(ctx.variables, name, value, Len(ctx.variables)))

RECURSIVE assign_variables(_, _, _, _, _)
assign_variables_next(r, names, kind, values, i) ==
    IF ~r.ok THEN r ELSE assign_variables(r.ctx, names, kind, values, i + 1)

\* the loops of apply_bindings and the two assignments of
\* assign_range_bindings: values gives the value for the idx-th name
assign_variables(ctx, names, kind, values, i) ==
    IF i > Len(names) THEN COk(ctx)
    ELSE assign_variables_next(assign_variable(ctx, names[i], kind, values[i]),
                               names, kind, values, i)

hot_apply_bindings(ctx, pipeline, value) ==
    IF pipeline.declarations = None \/ Len(pipeline.declarations[1].variables) = 0
    THEN COk(ctx)
    ELSE assign_variables(ctx, pipeline.declarations[1].variables,
             pipeline.declarations[1].kind,
             [idx \in 1..Len(pipeline.declarations[1].variables) |->
                 IF Len(pipeline.declarations[1].variables) = 1 \/ Tag(value) # "arr"
                 THEN value
                 ELSE IF idx <= Len(Payload(value)) THEN Payload(value)[idx]
                 ELSE VNull], 1)

hot_predeclare_bindings(ctx, pipeline) ==
    IF pipeline.declarations # None /\ pipeline.declarations[1].kind = "Declare"
    THEN [ctx EXCEPT !.variables[Len(ctx.variables)] =
              predeclare_from(@, pipeline.declarations[1].variables, 1)]
    ELSE ctx

hot_assign_range_bindings(ctx, pipeline, key, value) ==
    IF pipeline.declarations = None \/ Len(pipeline.declarations[1].variables) = 0
    THEN COk(ctx)
    ELSE IF Len(pipeline.declarations[1].variables) = 1
    THEN assign_variable(ctx, pipeline.declarations[1].variables[1],
                         pipeline.declarations[1].kind, value)
    ELSE assign_variables(ctx, SubSeq(pipeline.declarations[1].variables, 1, 2),
                          pipeline.declarations[1].kind,
                          <<IF key = None THEN VNull ELSE key[1], value>>, 1)

\* LegacySnapshot { root, stack, variables }
snapshot(ctx) == [root |-> ctx.root, stack |-> ctx.stack, variables |-> ctx.variables]

\* EvalContext::from_snapshot: the legacy context that holds the snapshot
from_snapshot(shot, functions) ==
    [stack |-> shot.stack, root |-> shot.root, variables |-> shot.variables,
     functions |-> functions]

\* The helper's Result, with the invocation recorded as <<name, args, the
\* context handed to the helper>>.
invoke_legacy_helper(name, ctx, args) ==
    [ok |-> call_function(name, args).ok, val |-> call_function(name, args).val,
     error |-> call_function(name, args).error,
     calls |-> << <<name, args, from_snapshot(snapshot(ctx), ctx.functions)>> >>]

hot_resolve_identifier(ctx, name) == resolve_identifier_from(ctx.stack, name, Len(ctx.stack))

hot_resolve_variable(ctx, name) ==
    resolve_variable_from(ctx.variables, name, Len(ctx.variables))

hot_resolve_field(ctx, parts) ==
    IF ctx.stack = <<>> /\ (parts = <<>> \/ ~StartsWith(parts[1], "$"))
    THEN HErr("dot resolution failed")
    ELSE IF parts = <<>> THEN HOk(ctx.stack[Len(ctx.stack)])
    ELSE project_parts(IF StartsWith(parts[1], "$") THEN hot_resolve_variable(ctx, parts[1])
                       ELSE ctx.stack[Len(ctx.stack)],
                       parts,
                       IF StartsWith(parts[1], "$") THEN 2 ELSE 1)

hot_resolve_command_target(ctx, command) ==
    IF command.target.kind = "Identifier"
    THEN IF command.target.name \in ctx.functions THEN "Helper" ELSE "Identifier"
    ELSE "Expression"

RECURSIVE hot_eval_pipeline(_, _)
RECURSIVE hot_eval_commands(_, _, _, _, _)
RECURSIVE hot_eval_command(_, _, _)
RECURSIVE hot_eval_args(_, _, _, _, _)
RECURSIVE hot_eval_expression(_, _)

hot_eval_pipeline_rest(ctx, commands, first) ==
    IF ~first.ok THEN first
    ELSE hot_eval_commands(ctx, commands, 2, first.val, first.calls)

hot_eval_pipeline(ctx, pipeline) ==
    IF pipeline.commands = <<>> THEN EErr("empty pipeline", <<>>)
    ELSE hot_eval_pipeline_rest(ctx, pipeline.commands,
                                hot_eval_command(ctx, pipeline.commands[1], None))

hot_eval_commands_next(ctx, commands, i, calls, r) ==
    IF ~r.ok THEN after_calls(calls, r)
    ELSE hot_eval_commands(ctx, commands, i + 1, r.val, calls \o r.calls)

hot_eval_commands(ctx, commands, i, value, calls) ==
    IF i > Len(commands) THEN EOk(value, calls)
    ELSE hot_eval_commands_next(ctx, commands, i, calls,
                                hot_eval_command(ctx, commands[i], Some(value)))

hot_eval_args_next(ctx, exprs, i, acc, calls, r) ==
    IF ~r.ok THEN after_calls(calls, r)
    ELSE hot_eval_args(ctx, exprs, i + 1, Append(acc, r.val), calls \o r.calls)

hot_eval_args(ctx, exprs, i, acc, calls) ==
    IF i > Len(exprs) THEN EOk(VArr(acc), calls)
    ELSE hot_eval_args_next(ctx, exprs, i, acc, calls, hot_eval_expression(ctx, exprs[i]))

hot_prepare_command_args(ctx, command, input, resolution) ==
    CASE resolution = "Helper" ->
           push_input(input, hot_eval_args(ctx, command.args, 1, <<>>, <<>>))
      [] resolution = "Identifier" ->
           IF command.args # <<>> \/ input # None
           THEN EErr("unknown function \"" \o command.target.name \o "\"", <<>>)
           ELSE EOk(VArr(<<>>), <<>>)
      [] resolution = "Expression" ->
           IF command.args # <<>>
           THEN EErr("arguments supplied to non-function expression", <<>>)
           ELSE IF input # None
           THEN EErr("cannot pipe value into non-function expression", <<>>)
           ELSE EOk(VArr(<<>>), <<>>)

\* entry.invoke_hot(self, &views) of a helper registered in the slow
\* convention only
hot_execute_prepared_command(ctx, command, resolution, args) ==
    IF resolution = "Helper"
    THEN invoke_legacy_helper(command.target.name, ctx, args)
    ELSE hot_eval_expression(ctx, command.target)

hot_eval_command_execute(ctx, command, resolution, args) ==
    IF ~args.ok THEN args
    ELSE after_calls(args.calls,
                     hot_execute_prepared_command(ctx, command, resolution,
                                                  Payload(args.val)))

hot_eval_command(ctx, command, input) ==
    hot_eval_command_execute(ctx, command, hot_resolve_command_target(ctx, command),
        hot_prepare_command_args(ctx, command, input,
                                 hot_resolve_command_target(ctx, command)))

hot_eval_expression(ctx, expr) ==
    CASE expr.kind = "Identifier" -> EOk(hot_resolve_identifier(ctx, expr.name), <<>>)
      [] expr.kind = "Field" -> without_calls(hot_resolve_field(ctx, expr.parts))
      [] expr.kind = "Variable" -> EOk(hot_resolve_variable(ctx, expr.name), <<>>)
      [] expr.kind = "PipelineExpr" ->
           IF expr.pipeline.declarations # None
           THEN EErr("pipeline declarations not allowed in expression", <<>>)
           ELSE hot_eval_pipeline(ctx, expr.pipeline)
      [] expr.kind = "StringLiteral" -> EOk(VStr(expr.value), <<>>)
      [] expr.kind = "NumberLiteral" -> number_literal(expr.text, parse_number(expr.text))
      [] expr.kind = "BoolLiteral" -> EOk(VBool(expr.flag), <<>>)
      [] expr.kind = "Nil" -> EOk(VNull, <<>>)

\* ------------------------------------------------------------------------
\* Rendering (lib.rs): one render call as a step machine
\* ------------------------------------------------------------------------

\* The state of one call of Template::render.  frames is the call stack of
\* render_block / render_range activations, innermost last.  trace is the
\* history of the call: helper invocations, pipeline results, blocks
\* entered and control nodes left, in the order they happen.
IdleRender ==
    [status |-> "idle", ctx |-> EvalContext_new(VNull, {}), output |-> "",
     frames |-> <<>>, error |-> NoError, result |-> None, trace |-> <<>>]

Ev(ev, span, tag, val) == [ev |-> ev, span |-> span, tag |-> tag, val |-> val]

\* A render_block activation: i is the next node, ret says what the caller
\* does when the block returns ("root": render, "branch": an if or else
\* block, "with": the then-block of a with, "range": a range iteration).
BlockFrame(nodes, ret, owner) ==
    [k |-> "block", nodes |-> nodes, i |-> 1, ret |-> ret, owner |-> owner,
     items |-> <<>>, iterated |-> FALSE, node |-> <<>>]

\* A render_range activation between iterations: items are the remaining
\* loop's <<key, value>> pairs, i the next one.
RangeFrame(node, items) ==
    [k |-> "range", nodes |-> <<>>, i |-> 1, ret |-> "", owner |-> node.span,
     items |-> items, iterated |-> FALSE, node |-> <<node>>]

Top(rs) == rs.frames[Len(rs.frames)]

\* the node the innermost render_block is about to match on
at_node(rs, type) ==
    /\ rs.status = "running"
    /\ rs.frames # <<>>
    /\ Top(rs).k = "block"
    /\ Top(rs).i <= Len(Top(rs).nodes)
    /\ Top(rs).nodes[Top(rs).i].type = type

current_node(rs) == Top(rs).nodes[Top(rs).i]

\* the for loop of render_block moves on to the next node
next_node(rs) == [rs EXCEPT !.frames[Len(rs.frames)].i = @ + 1]

call_events(calls, span) ==
    [j \in 1..Len(calls) |-> Ev("call", span, calls[j][1], VArr(calls[j][2]))]

\* an error that is noted while the render goes on
raise_and_go_on(rs, error) == [rs EXCEPT !.error = error]

\* the ? operator on a failed Result: the error starts to propagate
raise(rs, error) == [rs EXCEPT !.status = "unwinding", !.error = error]

\* rs with the helper invocations of one pipeline evaluation recorded
traced(rs, calls, span) == [rs EXCEPT !.trace = @ \o call_events(calls, span)]

evaluated(rs, span, tag, val) ==
    [rs EXCEPT !.trace = Append(@, Ev("eval", span, tag, val))]

\* ctx.apply_bindings(&pipeline, &value)?
eval_and_bind_bound(rs, value, b) ==
    IF ~b.ok THEN [ok |-> FALSE, val |-> VNull, rs |-> raise([rs EXCEPT !.ctx = b.ctx], b.error)]
    ELSE [ok |-> TRUE, val |-> value, rs |-> [rs EXCEPT !.ctx = b.ctx]]

\* let value = ctx.eval_pipeline(&pipeline)?
eval_and_bind_value(rs, node, r) ==
    IF ~r.ok
    THEN [ok |-> FALSE, val |-> VNull,
          rs |-> raise(evaluated(traced(rs, r.calls, node.span), node.span, "err", VNull),
                       r.error)]
    ELSE eval_and_bind_bound(evaluated(traced(rs, r.calls, node.span), node.span, "ok", r.val),
                             r.val, apply_bindings(rs.ctx, node.pipeline, r.val))

\* let value = ctx.eval_pipeline(&pipeline)?; ctx.apply_bindings(&pipeline, &value)?;
\* as render_block, render_if and render_with start
eval_and_bind(rs, node) ==
    eval_and_bind_value(rs, node, eval_pipeline(rs.ctx, node.pipeline))

\* Self::render_block(ctx, block, output) called from a control node
enter_block(rs, nodes, ret, owner, branch) ==
    [rs EXCEPT !.frames = Append(@, BlockFrame(nodes, ret, owner)),
               !.trace = Append(@, Ev("block", owner, branch, VNull))]

\* a control node returns Ok(()) to render_block
leave_node(rs, span) == [rs EXCEPT !.trace = Append(@, Ev("exit", span, "", VNull))]

render(data, ast, functions) ==
    [status |-> "running", ctx |-> EvalContext_new(data, functions), output |-> "",
     frames |-> <<BlockFrame(ast, "root", Span(0, 0))>>, error |-> NoError,
     result |-> None, trace |-> <<>>]

render_text(rs) == next_node([rs EXCEPT !.output = @ \o current_node(rs).text])

render_comment(rs) == next_node(rs)

render_action_write(node, e) ==
    IF ~e.ok THEN e.rs
    ELSE next_node(IF node.pipeline.declarations = None
                   THEN [e.rs EXCEPT !.output = @ \o value_to_string(e.val)]
                   ELSE e.rs)

render_action(rs) == render_action_write(current_node(rs), eval_and_bind(rs, current_node(rs)))

\* the for loop over else_if_branches: the rs after the first truthy or
\* failing branch, found says whether the loop returned
RECURSIVE render_else_if(_, _, _, _)
render_else_if_branch(node, branches, j, e) ==
    IF ~e.ok THEN [found |-> TRUE, rs |-> e.rs]
    ELSE IF is_truthy(e.val)
    THEN [found |-> TRUE,
          rs |-> enter_block(e.rs, branches[j].block, "branch", node.span, "elseif")]
    ELSE render_else_if(e.rs, node, branches, j + 1)

render_else_if(rs, node, branches, j) ==
    IF j > Len(branches) THEN [found |-> FALSE, rs |-> rs]
    ELSE render_else_if_branch(node, branches, j,
             eval_and_bind(rs, [pipeline |-> branches[j].pipeline,
                                span |-> branches[j].span]))

render_if_else(node, b) ==
    IF b.found THEN b.rs
    ELSE IF node.else_block # None
    THEN enter_block(b.rs, node.else_block[1], "branch", node.span, "else")
    ELSE leave_node(b.rs, node.span)

render_if_branch(node, e) ==
    IF ~e.ok THEN e.rs
    ELSE IF is_truthy(e.val)
    THEN enter_block(next_node(e.rs), node.then_block, "branch", node.span, "then")
    ELSE render_if_else(node, render_else_if(next_node(e.rs), node,
                                             node.else_if_branches, 1))

\* the declaration of a falsy pipeline is dropped before the else block
bound_when_truthy(rs, e) ==
    IF e.ok /\ ~is_truthy(e.val) THEN [e EXCEPT !.rs.ctx = rs.ctx] ELSE e

render_if_bound_when_truthy(rs) ==
    render_if_branch(current_node(rs),
                     bound_when_truthy(rs, eval_and_bind(rs, current_node(rs))))

render_if(rs) == render_if_branch(current_node(rs), eval_and_bind(rs, current_node(rs)))

render_with_branch(node, e) ==
    IF ~e.ok THEN e.rs
    ELSE IF is_truthy(e.val)
    THEN enter_block([next_node(e.rs) EXCEPT !.ctx = push_scope(@, e.val)],
                     node.then_block, "with", node.span, "then")
    ELSE IF node.else_block # None
    THEN enter_block(next_node(e.rs), node.else_block[1], "branch", node.span, "else")
    ELSE leave_node(next_node(e.rs), node.span)

render_with(rs) == render_with_branch(current_node(rs), eval_and_bind(rs, current_node(rs)))

\* a loop that leaves out the last element
range_items_short(value) ==
    CASE Tag(value) = "arr" ->
           [j \in 1..(Len(Payload(value)) - 1) |-> <<VNum(j - 1), Payload(value)[j]>>]
      [] Tag(value) = "obj" ->
           [j \in 1..(Len(Payload(value)) - 1) |->
               <<VStr(Payload(value)[j][1]), Payload(value)[j][2]>>]
      [] OTHER -> <<>>

\* the <<key, value>> pairs the match in render_range loops over
range_items(value) ==
    CASE Tag(value) = "arr" ->
           [j \in 1..Len(Payload(value)) |-> <<VNum(j - 1), Payload(value)[j]>>]
      [] Tag(value) = "obj" ->
           [j \in 1..Len(Payload(value)) |-> <<VStr(Payload(value)[j][1]), Payload(value)[j][2]>>]
      [] OTHER -> <<>>

\* let value = ctx.eval_pipeline(&node.pipeline)?; then the match is entered
render_range_value(rs, node, r) ==
    IF ~r.ok
    THEN raise(evaluated(traced(rs, r.calls, node.span), node.span, "err", VNull), r.error)
    ELSE [next_node(evaluated(traced(rs, r.calls, node.span), node.span, "ok", r.val))
             EXCEPT !.frames = Append(@, RangeFrame(node, range_items(r.val)))]

render_range_predeclared(rs, node) ==
    render_range_value(rs, node, eval_pipeline(rs.ctx, node.pipeline))

\* render_range up to its match: predeclare, evaluate the pipeline
render_range(rs) ==
    render_range_predeclared(
        [rs EXCEPT !.ctx = predeclare_bindings(@, current_node(rs).pipeline)],
        current_node(rs))

pop_frame(rs) == [rs EXCEPT !.frames = SubSeq(@, 1, Len(@) - 1)]

\* the iteration whose names are bound in the scope pushed for its body
range_next_bound_in_body(rs, f, node, b) ==
    IF ~b.ok THEN raise([rs EXCEPT !.ctx = b.ctx], b.error)
    ELSE IF f.i <= Len(f.items)
    THEN enter_block([rs EXCEPT !.ctx = assign_range_bindings(
                                            push_scope(rs.ctx, f.items[f.i][2]), node.pipeline,
                                            Some(f.items[f.i][1]), f.items[f.i][2]).ctx,
                                !.frames[Len(rs.frames)].i = @ + 1],
                     node.then_block, "range", node.span, "then")
    ELSE IF node.else_block # None
    THEN enter_block(pop_frame([rs EXCEPT !.ctx = b.ctx]),
                     node.else_block[1], "branch", node.span, "else")
    ELSE leave_node(pop_frame([rs EXCEPT !.ctx = b.ctx]), node.span)

\* after ctx.assign_range_bindings(..)?: the body of one iteration, or the
\* else block of a loop that did not iterate
range_next_bound(rs, f, node, b) ==
    IF ~b.ok THEN raise([rs EXCEPT !.ctx = b.ctx], b.error)
    ELSE IF f.i <= Len(f.items)
    THEN enter_block([rs EXCEPT !.ctx = push_scope(b.ctx, f.items[f.i][2]),
                                !.frames[Len(rs.frames)].i = @ + 1],
                     node.then_block, "range", node.span, "then")
    ELSE IF node.else_block # None
    THEN enter_block(pop_frame([rs EXCEPT !.ctx = b.ctx]),
                     node.else_block[1], "branch", node.span, "else")
    ELSE leave_node(pop_frame([rs EXCEPT !.ctx = b.ctx]), node.span)

range_next_frame(rs, f, node) ==
    IF f.i > Len(f.items) /\ f.iterated THEN leave_node(pop_frame(rs), node.span)
    ELSE range_next_bound(rs, f, node,
             assign_range_bindings(rs.ctx, node.pipeline,
                 IF f.i <= Len(f.items) THEN Some(f.items[f.i][1]) ELSE None,
                 IF f.i <= Len(f.items) THEN f.items[f.i][2] ELSE VNull))

\* render_range from its match on: the next iteration of the loop, or the
\* code after the loops
range_next(rs) == range_next_frame(rs, Top(rs), Top(rs).node[1])

block_return_to(rs1, f) ==
    CASE f.ret = "branch" -> leave_node(rs1, f.owner)
      [] f.ret = "with" -> leave_node([rs1 EXCEPT !.ctx = pop_scope(@)], f.owner)
      [] f.ret = "range" ->
           [rs1 EXCEPT !.ctx = pop_scope(@), !.frames[Len(rs1.frames)].iterated = TRUE]

\* render_block returns Ok(()) to the control node that called it, which
\* runs the code after its call
block_return(rs) == block_return_to(pop_frame(rs), Top(rs))

\* render_block(&self.ast.root) returned Ok(()): Ok(output)
render_return(rs) ==
    [pop_frame(rs) EXCEPT !.status = "ok", !.result = Some(<<"Ok", rs.output>>)]

\* An Err leaves the innermost activation: render_with and render_range pop
\* the scope of a failed body before they pass the error on; when the root
\* block is left, render returns Err(error).
unwind_from(rs1, f, error) ==
    IF f.k = "block" /\ f.ret \in {"with", "range"}
    THEN [rs1 EXCEPT !.ctx = pop_scope(@)]
    ELSE IF f.k = "block" /\ f.ret = "root"
    THEN [rs1 EXCEPT !.status = "err", !.result = Some(<<"Err", error>>)]
    ELSE rs1

unwind(rs) == unwind_from(pop_frame(rs), Top(rs), rs.error)

\* Template { name, source, ast, functions } of a successful parse
Template(source, ast, functions) ==
    [source |-> source, ast |-> ast, functions |-> functions]

\* The step a render takes next: the match of render_block on the node it
\* is at, the loop of render_range, a return, or the propagation of an error.
render_step(rs) ==
    CASE rs.status = "unwinding" -> unwind(rs)
      [] at_node(rs, "Text") -> render_text(rs)
      [] at_node(rs, "Comment") -> render_comment(rs)
      [] at_node(rs, "Action") -> render_action(rs)
      [] at_node(rs, "If") -> render_if(rs)
      [] at_node(rs, "Range") -> render_range(rs)
      [] at_node(rs, "With") -> render_with(rs)
      [] rs.status = "running" /\ rs.frames # <<>> /\ Top(rs).k = "range" -> range_next(rs)
      [] rs.status = "running" /\ rs.frames # <<>> /\ Top(rs).k = "block"
           /\ Top(rs).i > Len(Top(rs).nodes) ->
           IF Top(rs).ret = "root" THEN render_return(rs) ELSE block_return(rs)
      [] OTHER -> rs

RECURSIVE render_run(_)
render_run(rs) ==
    IF rs.status \in {"running", "unwinding"} THEN render_run(render_step(rs)) ELSE rs

\* Template::render(&self, data): Some(<<"Ok", output>>) or Some(<<"Err", error>>)
Template_render(tmpl, value) == render_run(render(value, tmpl.ast, tmpl.functions)).result

\* Template::parse_with_functions, then render; a parse error is the result
render_parsed(p, functions, value) ==
    IF p.status = "ok" THEN Template_render(Template(p.source, p.root, functions), value)
    ELSE Some(<<"Err", p.error>>)

render_source(source, functions, value) ==
    render_parsed(parse_template(source), functions, value)

\* ------------------------------------------------------------------------
\* Inputs: template sources and data values
\* ------------------------------------------------------------------------

\* longest array or map among the data values
MaxItems == 2

\* deepest nesting among the generated control-structure sources
MaxDepth == 3

\* ["e1", "e2", ...] and {"k1": 1, "k2": 2, ...}
ArrayOf(n) == VArr([j \in 1..n |-> VStr("e" \o nat_to_string(j))])

MapOf(n) == VObj([j \in 1..n |-> <<"k" \o nat_to_string(j), VNum(j)>>])

\* an array of one map: [{"name": "in", "value": 1}]
RowArray == VArr(<< VObj(<< <<"name", VStr("in")>>, <<"value", VNum(1)>> >>) >>)

\* a map whose keys were inserted out of their sorted order
UnsortedMap == VObj(<< <<"b", VNum(1)>>, <<"a", VNum(2)>> >>)

ItemShapes ==
    {ArrayOf(n) : n \in 0..MaxItems} \cup {MapOf(n) : n \in 0..MaxItems}
      \cup {VNull, VBool(TRUE), VNum(3), VStr("xy"), UnsortedMap, RowArray}

InnerMap == VObj(<< <<"name", VStr("in")>>, <<"value", VNum(1)>> >>)

\* the data values handed to render
DataValues ==
    {VObj(<< <<"flag", VBool(TRUE)>>, <<"inner", InnerMap>>, <<"items", it>>,
             <<"name", VStr("World")>> >>) : it \in ItemShapes}
      \cup {VObj(<< <<"flag", VBool(FALSE)>>, <<"inner", VNull>>, <<"items", it>> >>) :
              it \in ItemShapes}
      \cup {VNum(1)}

\* {{if p}}A{{else if q}}B{{else}}C{{end}}
ElseIfForm(p, q) == "{{if " \o p \o "}}A{{else if " \o q \o "}}B{{else}}C{{end}}"

ElseIfOperands == <<".flag", ".inner", ".items">>

ElseIfSource == ElseIfForm(".flag", ".inner")

ElseIfSources ==
    {ElseIfForm(ElseIfOperands[i], ElseIfOperands[j]) :
        i \in 1..Len(ElseIfOperands), j \in 1..Len(ElseIfOperands)}

BranchSources ==
    << "Hello, {{.name}}!",
       "{{if .flag}}yes{{else}}no{{end}}",
       "{{if .flag}}yes{{end}}",
       "{{if .flag}}A{{else if .inner}}B{{end}}",
       "{{with .inner}}{{.name}}{{else}}missing{{end}}",
       "{{with .inner}}{{name}}{{end}}{{name}}",
       "{{range .items}}{{.}},{{else}}empty{{end}}",
       "{{range .items}}[{{.}}]{{end}}",
       "{{range $i, $v := .items}}{{$i}}:{{$v}};{{end}}",
       "{{range .items}}{{range .}}x{{else}}e{{end}}{{end}}",
       "{{range $x = .items}}{{$x}}{{else}}E{{end}}" >>

ScopeSources ==
    << "{{ $x := \"outer\" }}{{ with .inner }}{{ $x := \"inner\" }}{{ $x }}{{ end }}{{ $x }}",
       "{{with .inner}}{{$y := 1}}{{end}}[{{$y}}]",
       "{{range .items}}{{$y := .}}{{end}}[{{$y}}]",
       "{{$x := 1}}{{with .inner}}{{$x = 2}}{{end}}{{$x}}",
       "{{$x := 1}}{{range .items}}{{$x = .}}{{end}}{{$x}}",
       "{{ $v := \"first\" }}{{ $v = \"second\" }}{{ $v }}",
       "{{ $v = .name }}",
       "{{with .inner}}{{$v = 1}}{{end}}",
       "{{$a := 1}}{{$a, $v = .items}}{{$a}}",
       "{{$ := 1}}{{$}}",
       "{{$x := 1}}{{$ = 2}}",
       "{{if $ := .flag}}x{{end}}",
       "{{range $ := .items}}x{{else}}E{{end}}",
       "{{range $k, $ := .items}}x{{end}}",
       "{{range $a, $b, $ := .items}}x{{end}}",
       "{{with $ := .inner}}x{{end}}",
       "{{$x := 1}}{{with .inner}}{{$x = 2}}{{$x := 3}}{{$x}}{{end}}{{$x}}",
       "{{range .items}}{{if .}}{{$y := .}}{{end}}{{end}}[{{$y}}]",
       "{{range .items}}{{$v = 1}}{{end}}",
       "{{ $.name }}" >>

ErrorSources ==
    << "a{{print 1}}{{fail \"boom\"}}{{print 2}}b",
       "{{range .items}}{{.}}{{fail .}}{{end}}z",
       "x{{with .inner}}y{{.name.bad}}{{print 9}}{{end}}z",
       "{{unknown .}} ",
       "{{.items | unknown}}",
       "{{missing}}",
       "{{missing 1}}",
       "{{nope .name.bad}}",
       "{{with .inner}}{{flag}}{{name}}{{end}}",
       "{{range .items}}{{name}}{{end}}",
       "{{range .items}}{{print .}}{{if print 1}}{{print 2}}{{end}}{{end}}{{with print 3}}{{print (print 4) 5}}{{end}}",
       "{{print 1 (print 2 | len) (default 3 .name) | eq 4}}{{if print 5}}{{print 6}}{{end}}",
       "{{ 1 | print 2 3 }}" >>

LayoutSources ==
    << "",
       "x \r\n\t{{- /* hi */}}",
       "Line1\n{{- \"Line2\" -}}\nLine3",
       "{{ ~{{ \"d\" }~ }}",
       "{{ \"d\" }",
       "{{/*}} ",
       "{{end}}",
       "{{else}}",
       "{{if .flag}}a{{else}}b",
       "x {{- if .flag -}} y",
       "{{with .inner}}{{if .name}}a{{end}}" >>

\* "x | g | f" for the expressions x and the unary helpers g and f
PipeOperands ==
    <<".items", ".name", "$", "1", "missing", "not", "print", "(print 1 2)", ".name.bad">>

UnaryHelpers == <<"len", "not", "print">>

PipeForm(x, g, f) == "{{ " \o x \o " | " \o g \o " | " \o f \o " }}"

NestedForm(x, g, f) == "{{ " \o f \o " (" \o g \o " " \o x \o ") }}"

PipeSources ==
    [n \in 1..(Len(PipeOperands) * Len(UnaryHelpers) * Len(UnaryHelpers)) |->
        LET m == n - 1
            u == Len(UnaryHelpers)
        IN PipeForm(PipeOperands[(m \div (u * u)) + 1],
                    UnaryHelpers[((m \div u) % u) + 1], UnaryHelpers[(m % u) + 1])]

\* d opening actions (if, range, with in turn) around a text, then k ends
OpenAction(j) ==
    CASE j % 3 = 1 -> "{{if .flag}}" [] j % 3 = 2 -> "{{range .items}}" [] OTHER -> "{{with .inner}}"

RECURSIVE Openers(_, _)
Openers(j, d) == IF j > d THEN "" ELSE OpenAction(j) \o Openers(j + 1, d)

RECURSIVE Ends(_)
Ends(k) == IF k = 0 THEN "" ELSE "{{end}}" \o Ends(k - 1)

NestSource(d, k) == Openers(1, d) \o "t" \o Ends(k)

NestPairs == {<<d, k>> \in (1..MaxDepth) \X (0..MaxDepth) : k <= d}

SeqToSet(q) == {q[j] : j \in 1..Len(q)}

\* one template written with the whitespace pad between the tokens of its
\* actions: forms 1 to 3 inside the action bodies, form 4 around the body
Pads == <<"", " ", "  ">>

WhitespaceForm(f, pad) ==
    CASE f = 1 -> "{{" \o pad \o ".name" \o pad \o "|" \o pad \o "print" \o pad \o "}}"
      [] f = 2 -> "a{{if " \o pad \o ".flag" \o pad \o "}}b{{else}}c{{end}}"
      [] f = 3 -> "{{print " \o pad \o ".name " \o pad \o "(len " \o pad \o ".items)}}"
      [] OTHER -> "{{" \o pad \o ".name" \o pad \o "}}"

WhitespaceForms == 1..4

WhitespaceSources ==
    {WhitespaceForm(f, Pads[k]) : f \in WhitespaceForms, k \in 1..Len(Pads)}

\* a text, whitespace, an action or comment with or without its trim
\* markers, whitespace, a text
TrimSpaces == <<" ", "\t\r\n ">>

TrimBodies == <<"\"m\"", "/* c */">>

TrimForm(b, w1, left, right, w2) ==
    "a b" \o w1 \o "{{" \o (IF left THEN "- " ELSE "") \o TrimBodies[b]
          \o (IF right THEN " -" ELSE "") \o "}}" \o w2 \o "c d"

TrimCases ==
    (1..Len(TrimBodies)) \X (1..Len(TrimSpaces)) \X BOOLEAN \X BOOLEAN \X (1..Len(TrimSpaces))

TrimCaseSource(c) == TrimForm(c[1], TrimSpaces[c[2]], c[3], c[4], TrimSpaces[c[5]])

TrimControlSource == "a \n{{- if .flag -}} \n b \t{{- else -}}\r\nc {{- end -}} d"

TrimSources == {TrimCaseSource(c) : c \in TrimCases} \cup {TrimControlSource}

\* action bodies in which a string, a raw string or a comment holds "}}"
MutingBodies ==
    << "\"a}}b\"",
       "\"a\\\"}}\"",
       "\"\\\\\" ~}}~",
       "~a}}\"b~",
       "/* }} */",
       "/* \" }} ~ */",
       "print \"x\" /* }} */ ~}}~" >>

MutingSource(j) == "{{" \o MutingBodies[j] \o "}}}} t"

\* sources whose one action has no end, each with whether its body begins
\* with "/*": the body is what follows "{{", whitespace, a "-" if there
\* is one, and whitespace
UnclosedSources ==
    << <<"{{ /* x", TRUE>>,
       <<"{{- /* x }}", TRUE>>,
       <<"{{-/* x", TRUE>>,
       <<"{{ \"a }}", FALSE>>,
       <<"{{ ~a }}", FALSE>>,
       <<"{{ x", FALSE>>,
       <<"{{ x /* }}", FALSE>>,
       <<"{{ - /* x", TRUE>>,
       <<"{{ -- /* x", FALSE>> >>

ActionEndSources ==
    {MutingSource(j) : j \in 1..Len(MutingBodies)}
      \cup {UnclosedSources[j][1] : j \in 1..Len(UnclosedSources)}

\* an else action with something other than "if <pipeline>" after else
ElseOtherSources ==
    { "{{ if true }}A{{ else with . }}B{{ end }}",
      "{{if .flag}}A{{else range .items}}B{{end}}",
      "{{if .flag}}A{{else .flag}}B{{end}}" }

\* helpers called with too few and with too many arguments
ArgCountSources ==
    { "{{eq 1}}", "{{eq 1 1 2}}", "{{len}}", "{{len .items .items}}", "{{not 1 2}}",
      "{{default 1}}", "{{default 1 .name 3}}", "{{fail}}" }

\* {{if $x := p}}T{{$x}}{{else}}E{{$x}}{{end}}
IfDeclOperands == <<".flag", ".name", ".items", ".inner">>

IfDeclForm(p) == "{{if $x := " \o p \o "}}T{{$x}}{{else}}E{{$x}}{{end}}"

IfDeclSources == {IfDeclForm(IfDeclOperands[i]) : i \in 1..Len(IfDeclOperands)}

\* ranges with declarations and an else block that writes the declared names
RangeDeclSources ==
    << "{{range $v := .items}}x{{else}}[{{$v}}]{{end}}",
       "{{$v := 1}}{{range $v := .items}}x{{else}}[{{$v}}]{{end}}",
       "{{$a := 1}}{{$b := 2}}{{range $a, $b := .items}}x{{else}}[{{$a}}{{$b}}]{{end}}",
       "{{range $a, $b, $c := .items}}x{{else}}[{{$a}}{{$b}}{{$c}}]{{end}}",
       "{{$c := 1}}{{range $a, $b, $c := .items}}x{{else}}[{{$a}}{{$b}}{{$c}}]{{end}}",
       "{{$c := 1}}{{with .flag}}{{range $a, $b, $c := $.items}}x{{else}}[{{$c}}]{{end}}{{end}}" >>

\* ranges with no, one and two declared names that write the names and dot,
\* followed by a field of the dot of the range
RangeOrderSources ==
    << "{{range .items}}[{{.}}]{{end}}|{{.flag}}",
       "{{range $v := .items}}{{$v}}={{.}};{{end}}|{{.flag}}",
       "{{range $i, $v := .items}}{{$i}}:{{$v}}={{.}};{{end}}|{{.flag}}" >>

\* field paths written with and without space around their dots
FieldSources ==
    << "{{.a.b}}", "{{.a .b}}", "{{. a}}", "{{.a. b}}", "{{$x.a}}", "{{$x .a}}",
       "{{print .a.b .inner.name}}", "{{if .a . b}}x{{end}}" >>

\* field paths with a numeric segment in the middle and at the end
NumericSegmentSources == << "{{.items.0.name}}", "{{.items.0}}", "{{.items.0 .name}}" >>

\* field paths over a missing key, an index past the end, a name applied
\* to an array and a segment applied to a scalar
FieldEvalSources ==
    << "{{.missing}}", "{{.missing.x}}", "{{.items.5}}", "{{.items.name}}", "{{.name.x}}",
       "{{.inner.name}}" >>

\* whitespace alone before an action with a left trim marker, at the
\* start of the source, between two actions and at the start of a block
LeftTrimSources ==
    << " \n{{- .name}}", "{{.name}} {{- .name}}", "{{if .flag}}\t{{- .name}}{{end}}" >>

\* an end and an else after the only frame was closed
StrayCloseSources == << "{{if .flag}}a{{end}}{{end}}", "{{with .inner}}a{{end}}b{{ else }}" >>

\* names declared in the header of a with, a range and an if, and in the
\* body of an if, written after the end of the construct
WithHeaderSource == "{{with $x := .inner}}a{{end}}[{{$x.name}}]"

RangeHeaderSource == "{{range $i, $v := .items}}x{{end}}[{{$i}}{{$v}}]"

RangeValueSource == "{{range $v := .items}}x{{end}}[{{$v}}]"

IfHeaderSource == "{{if $x := .name}}a{{end}}[{{$x}}]"

IfBodySource == "{{if .flag}}{{$y := .name}}{{end}}[{{$y}}]"

NestedIfBodySource == "{{with .inner}}{{if .name}}{{$y := .value}}{{end}}[{{$y}}]{{end}}"

HeaderSources ==
    {WithHeaderSource, RangeHeaderSource, RangeValueSource, IfHeaderSource, IfBodySource,
     NestedIfBodySource}

\* the template of the test analysis_reports_else_if_functions, with the
\* registered helper print
ElseIfHelperSource == "{{ if .flag }}A{{ else if print .name }}B{{ else }}C{{ end }}"

AnalyzerSources ==
    << "{{template \"x\" .}}",
       "{{template .name}}",
       "{{block \"b\" .}}",
       "{{define \"d\"}}",
       "{{ customFunc .value }}",
       "{{if print .flag}}{{len .items | print}}{{else}}{{nope (print 1)}}{{end}}{{print 2}}",
       "{{range $i, $v := .items}}{{$v}}{{end}}",
       "{{with $w := .inner}}{{$w.name}}{{end}}",
       "{{ .items [ 1 ] }}",
       "{{ .flag == .name }}",
       ElseIfHelperSource >>

Sources ==
    SeqToSet(BranchSources) \cup SeqToSet(ScopeSources) \cup SeqToSet(ErrorSources)
      \cup SeqToSet(LayoutSources) \cup SeqToSet(PipeSources) \cup ElseIfSources
      \cup {NestSource(pr[1], pr[2]) : pr \in NestPairs}
      \cup WhitespaceSources \cup SeqToSet(AnalyzerSources) \cup TrimSources
      \cup IfDeclSources \cup SeqToSet(RangeDeclSources) \cup SeqToSet(RangeOrderSources)
      \cup SeqToSet(FieldSources) \cup SeqToSet(NumericSegmentSources)
      \cup SeqToSet(FieldEvalSources) \cup SeqToSet(LeftTrimSources)
      \cup SeqToSet(StrayCloseSources) \cup HeaderSources
      \cup ActionEndSources \cup ElseOtherSources \cup ArgCountSources

\* ------------------------------------------------------------------------
\* The state machine
\* ------------------------------------------------------------------------

VARIABLES
    parser,     \* the locals of the running parse_template call
    template,   \* Option<Template>: the parsed template
    data,       \* per caller, the data value it passes to render
    renders,    \* per caller, its call of Template::render
    canonical,  \* Option<String>: what Template::to_template_string returned
    analysis,   \* Option<TemplateAnalysis>: what Template::analyze returned
    contexts,   \* Option: an EvalContextHot and an EvalContext driven alike
    slices      \* Option: the arguments of a call of the slice helper, its result

vars == <<parser, template, data, renders, canonical, analysis, contexts, slices>>

Callers == DOMAIN data

\* An EvalContextHot and an EvalContext over the same data and registry,
\* with the outcome of the last operation on each.
ContextPair(hot, legacy, ops, hot_outcome, legacy_outcome) ==
    [hot |-> hot, legacy |-> legacy, ops |-> ops,
     hot_outcome |-> hot_outcome, legacy_outcome |-> legacy_outcome]

NoOutcome == [op |-> "new"]

BindOutcome(r) == [op |-> "bind", ok |-> r.ok, error |-> r.error]

EvalOutcome(r) == [op |-> "eval", ok |-> r.ok, val |-> r.val, error |-> r.error,
                   calls |-> r.calls]

NewContexts(root) ==
    ContextPair(EvalContextHot_new(root, Registry), EvalContext_new(root, Registry),
                0, NoOutcome, NoOutcome)

\* the operations on one pair of contexts
MaxContextOps == 3

\* a source that parse_template rejects at once
ContextSource == "{{ x"

ContextData ==
    { VObj(<< <<"flag", VBool(TRUE)>>, <<"inner", InnerMap>>,
              <<"items", ArrayOf(1)>>, <<"name", VStr("World")>> >>),
      VNum(1) }

\* the pipeline of an action body
pipeline_of(body) == parse_action_pipeline(lex_action(body, 0).tokens).val

ScopeValues == {InnerMap, VStr("s")}

BindingBodies == {"$x := .", "$x = .", "$a, $b := .", "$ := ."}

BoundValues == {VNum(7), VArr(<<VStr("p")>>)}

RangeBindingBodies == {"$v := .", "$k, $v := .", "$k, $v = ."}

RangeItems == {<<None, VNull>>, <<Some(VNum(0)), VStr("e")>>, <<Some(VStr("k1")), VNum(1)>>}

\* pipelines as the parser builds them, and the variable reference
\* Expression::Variable(".") built through the AST constructors
ContextPipelines ==
    {pipeline_of(body) :
        body \in {".", "print . $x", "name | len", "$.name", ".name.x", "$a",
                  "print (len $v) $k", "nope 1"}}
      \cup {Pipeline(None, <<Command(EVariable("."), <<>>)>>)}

\* a caller that drives the two contexts instead of a successful parse
InitContexts(callers) ==
    /\ parser = ParserInit(ContextSource)
    /\ template = None
    /\ data \in [callers -> ContextData]
    /\ renders = [r \in callers |-> IdleRender]
    /\ canonical = None
    /\ analysis = None
    /\ contexts = Some(NewContexts(data[1]))
    /\ slices = None

Init ==
    \/ /\ \E source \in Sources : parser = ParserInit(source)
       /\ template = None
       /\ data \in [{1} -> DataValues]
       /\ renders = [r \in {1} |-> IdleRender]
       /\ canonical = None
       /\ analysis = None
       /\ contexts = None
       /\ slices = None
    \/ InitContexts({1})

ParseIteration ==
    /\ parse_looping(parser)
    /\ parser' = parse_iteration(parser)
    /\ UNCHANGED <<template, data, renders, canonical, analysis, contexts, slices>>

\* the code after the loop, and parse_with_functions wrapping the Ast
ParseFinish ==
    /\ parse_left_loop(parser)
    /\ parser' = parse_finish(parser)
    /\ template' = IF parser'.status = "ok"
                   THEN Some(Template(parser'.source, parser'.root, Registry))
                   ELSE None
    /\ UNCHANGED <<data, renders, canonical, analysis, contexts, slices>>

StartRender(r) ==
    /\ template # None
    /\ renders[r].status = "idle"
    /\ renders' = [renders EXCEPT ![r] = render(data[r], template[1].ast, template[1].functions)]
    /\ UNCHANGED <<parser, template, data, canonical, analysis, contexts, slices>>

\* a step on a context that every caller's render uses
RenderStepSharedContext(r, rs) ==
    /\ renders' = [c \in Callers |->
                      IF c = r THEN rs ELSE [renders[c] EXCEPT !.ctx = rs.ctx]]
    /\ UNCHANGED <<parser, template, data, canonical, analysis, contexts, slices>>

RenderStep(r, rs) ==
    /\ renders' = [renders EXCEPT ![r] = rs]
    /\ UNCHANGED <<parser, template, data, canonical, analysis, contexts, slices>>

RenderText(r) == at_node(renders[r], "Text") /\ RenderStep(r, render_text(renders[r]))

RenderComment(r) == at_node(renders[r], "Comment") /\ RenderStep(r, render_comment(renders[r]))

RenderAction(r) == at_node(renders[r], "Action") /\ RenderStep(r, render_action(renders[r]))

RenderIf(r) == at_node(renders[r], "If") /\ RenderStep(r, render_if(renders[r]))

RenderRange(r) == at_node(renders[r], "Range") /\ RenderStep(r, render_range(renders[r]))

RenderWith(r) == at_node(renders[r], "With") /\ RenderStep(r, render_with(renders[r]))

block_done(rs) ==
    /\ rs.status = "running"
    /\ rs.frames # <<>>
    /\ Top(rs).k = "block"
    /\ Top(rs).i > Len(Top(rs).nodes)

RangeNext(r) ==
    /\ renders[r].status = "running"
    /\ renders[r].frames # <<>>
    /\ Top(renders[r]).k = "range"
    /\ RenderStep(r, range_next(renders[r]))

BlockReturn(r) ==
    /\ block_done(renders[r])
    /\ Top(renders[r]).ret # "root"
    /\ RenderStep(r, block_return(renders[r]))

RenderReturn(r) ==
    /\ block_done(renders[r])
    /\ Top(renders[r]).ret = "root"
    /\ RenderStep(r, render_return(renders[r]))

Unwind(r) ==
    /\ renders[r].status = "unwinding"
    /\ RenderStep(r, unwind(renders[r]))

\* Template::to_template_string(&self)
ToTemplateString ==
    /\ template # None
    /\ canonical = None
    /\ canonical' = Some(to_template_string(template[1].ast))
    /\ UNCHANGED <<parser, template, data, renders, analysis, contexts, slices>>

\* Template::analyze(&self)
Analyze ==
    /\ template # None
    /\ analysis = None
    /\ analysis' = Some(analyze_template(template[1].ast, Some(template[1].functions)))
    /\ UNCHANGED <<parser, template, data, renders, canonical, contexts, slices>>

ContextsOpen == contexts # None /\ contexts[1].ops < MaxContextOps

\* push_scope_slot on the hot context, push_scope on the legacy one
ContextPushScope ==
    /\ ContextsOpen
    /\ \E value \in ScopeValues :
          contexts' = Some(ContextPair(push_scope_slot(contexts[1].hot, value),
                                       push_scope(contexts[1].legacy, value),
                                       contexts[1].ops + 1, NoOutcome, NoOutcome))
    /\ UNCHANGED <<parser, template, data, renders, canonical, analysis, slices>>

ContextPopScope ==
    /\ ContextsOpen
    /\ contexts' = Some(ContextPair(hot_pop_scope(contexts[1].hot),
                                    pop_scope(contexts[1].legacy),
                                    contexts[1].ops + 1, NoOutcome, NoOutcome))
    /\ UNCHANGED <<parser, template, data, renders, canonical, analysis, slices>>

bound_pair(ops, h, l) == ContextPair(h.ctx, l.ctx, ops + 1, BindOutcome(h), BindOutcome(l))

\* apply_bindings of one value on both contexts
ContextApplyBindings ==
    /\ ContextsOpen
    /\ \E body \in BindingBodies, value \in BoundValues :
          contexts' = Some(bound_pair(contexts[1].ops,
                               hot_apply_bindings(contexts[1].hot, pipeline_of(body), value),
                               apply_bindings(contexts[1].legacy, pipeline_of(body), value)))
    /\ UNCHANGED <<parser, template, data, renders, canonical, analysis, slices>>

\* predeclare_bindings, then assign_range_bindings, as render_range calls them
ContextRangeBindings ==
    /\ ContextsOpen
    /\ \E body \in RangeBindingBodies, item \in RangeItems :
          contexts' = Some(bound_pair(contexts[1].ops,
                               hot_assign_range_bindings(
                                   hot_predeclare_bindings(contexts[1].hot, pipeline_of(body)),
                                   pipeline_of(body), item[1], item[2]),
                               assign_range_bindings(
                                   predeclare_bindings(contexts[1].legacy, pipeline_of(body)),
                                   pipeline_of(body), item[1], item[2])))
    /\ UNCHANGED <<parser, template, data, renders, canonical, analysis, slices>>

\* eval_pipeline on both contexts
ContextEvalPipeline ==
    /\ ContextsOpen
    /\ \E pipeline \in ContextPipelines :
          contexts' = Some(ContextPair(contexts[1].hot, contexts[1].legacy,
                               contexts[1].ops + 1,
                               EvalOutcome(hot_eval_pipeline(contexts[1].hot, pipeline)),
                               EvalOutcome(eval_pipeline(contexts[1].legacy, pipeline))))
    /\ UNCHANGED <<parser, template, data, renders, canonical, analysis, slices>>

Next ==
    \/ ParseIteration
    \/ ParseFinish
    \/ ToTemplateString
    \/ Analyze
    \/ \E r \in Callers : StartRender(r)
    \/ \E r \in Callers : RenderText(r)
    \/ \E r \in Callers : RenderComment(r)
    \/ \E r \in Callers : RenderAction(r)
    \/ \E r \in Callers : RenderIf(r)
    \/ \E r \in Callers : RenderRange(r)
    \/ \E r \in Callers : RenderWith(r)
    \/ \E r \in Callers : RangeNext(r)
    \/ \E r \in Callers : BlockReturn(r)
    \/ \E r \in Callers : RenderReturn(r)
    \/ \E r \in Callers : Unwind(r)
    \/ ContextPushScope
    \/ ContextPopScope
    \/ ContextApplyBindings
    \/ ContextRangeBindings
    \/ ContextEvalPipeline

Spec == Init /\ [][Next]_vars

\* Two callers render the one parsed template, their steps interleaved in
\* any order (render takes &self and &Value; helpers are Fn + Send + Sync).
ConcurrentSources ==
    { "Hello, {{.name}}!",
      "{{range .items}}{{.}},{{else}}empty{{end}}",
      "{{with .inner}}{{$x := .name}}{{$x}}{{end}}{{/* c */}}{{if .flag}}yes{{end}}",
      "{{$x := 1}}{{range .items}}{{$x = .}}{{fail .}}{{end}}{{$x}}" }

ConcurrentData ==
    { VObj(<< <<"flag", VBool(TRUE)>>, <<"inner", InnerMap>>,
              <<"items", ArrayOf(MaxItems)>>, <<"name", VStr("World")>> >>),
      VObj(<< <<"flag", VBool(FALSE)>>, <<"inner", VNull>>, <<"items", MapOf(0)>> >>),
      VNum(1) }

InitConcurrent ==
    \/ /\ \E source \in ConcurrentSources : parser = ParserInit(source)
       /\ template = None
       /\ data \in [{1, 2} -> ConcurrentData]
       /\ renders = [r \in {1, 2} |-> IdleRender]
       /\ canonical = None
       /\ analysis = None
       /\ contexts = None
       /\ slices = None
    \/ InitContexts({1, 2})

SpecConcurrent == InitConcurrent /\ [][Next]_vars

\* A call of the slice helper: its arguments as they are put together and,
\* once it ran, its result.
MaxSliceIndices == 3

MaxSliceIndex == 5

SliceTargets ==
    {VStr("abc"), VStr("héo"), VStr(""), ArrayOf(MaxItems + 1), VArr(<<>>), VNull, VNum(1)}

SliceIndexValues ==
    {VNum(n) : n \in (-1)..MaxSliceIndex} \cup {VStr("1"), VStr("x"), VNull, VFloat("1.5")}

InitSlice ==
    /\ parser = ParserInit(ContextSource)
    /\ template = None
    /\ data = [r \in {1} |-> VNull]
    /\ renders = [r \in {1} |-> IdleRender]
    /\ canonical = None
    /\ analysis = None
    /\ contexts = None
    /\ \E target \in SliceTargets : slices = Some([args |-> <<target>>, result |-> None])

\* one more index argument for the call
SliceArgument ==
    /\ slices # None
    /\ slices[1].result = None
    /\ Len(slices[1].args) < 1 + MaxSliceIndices
    /\ \E index \in SliceIndexValues :
          slices' = Some([slices[1] EXCEPT !.args = Append(@, index)])
    /\ UNCHANGED <<parser, template, data, renders, canonical, analysis, contexts>>

\* the registry's entry "slice" called with the arguments
SliceCall ==
    /\ slices # None
    /\ slices[1].result = None
    /\ slices' = Some([slices[1] EXCEPT !.result = Some(builtin_slice(slices[1].args))])
    /\ UNCHANGED <<parser, template, data, renders, canonical, analysis, contexts>>

NextSlice == SliceArgument \/ SliceCall

SpecSlice == InitSlice /\ [][NextSlice]_vars


\* ------------------------------------------------------------------------
\* Properties
\* ------------------------------------------------------------------------

contains(text, part) ==
    \E i \in 0..(Len(text) - Len(part)) : Slice(text, i, i + Len(part)) = part

Parsed == parser.status \in {"ok", "err", "panic"}

Returned(r) == renders[r].status \in {"ok", "err"}

\* the events of a trace with the given kind, in order
events_of(trace, ev) == SelectSeq(trace, LAMBDA e : e.ev = ev)

\* the value of the field a one-segment operand such as ".flag" names
operand_value(value, operand) ==
    IF Tag(value) = "obj" /\ map_get(Payload(value), Slice(operand, 1, Len(operand))) # None
    THEN map_get(Payload(value), Slice(operand, 1, Len(operand)))[1]
    ELSE VNull

\* C1: a template {{if p}}A{{else if q}}B{{else}}C{{end}} parses, and over
\* map data its render evaluates p, then q only if p was falsy, and returns
\* exactly the block of the first truthy pipeline, or C when both are falsy.
C1_ElseIfRendersFirstTruthyBranch ==
    \A i, j \in 1..Len(ElseIfOperands) :
        parser.source = ElseIfForm(ElseIfOperands[i], ElseIfOperands[j]) =>
            /\ parser.status \notin {"err", "panic"}
            /\ \A r \in Callers :
                  Returned(r) /\ Tag(data[r]) = "obj" =>
                      /\ renders[r].result =
                            Some(<<"Ok",
                                   IF is_truthy(operand_value(data[r], ElseIfOperands[i]))
                                   THEN "A"
                                   ELSE IF is_truthy(operand_value(data[r], ElseIfOperands[j]))
                                   THEN "B" ELSE "C">>)
                      /\ Len(events_of(renders[r].trace, "eval")) =
                            IF is_truthy(operand_value(data[r], ElseIfOperands[i]))
                            THEN 1 ELSE 2

\* every node of a block, at any depth
RECURSIVE all_nodes(_)
nested_nodes(node) ==
    IF node.type \notin {"If", "Range", "With"} THEN {}
    ELSE all_nodes(node.then_block)
           \cup (IF node.else_block = None THEN {} ELSE all_nodes(node.else_block[1]))
           \cup (IF node.type # "If" THEN {}
                 ELSE UNION {all_nodes(node.else_if_branches[j].block) :
                                j \in 1..Len(node.else_if_branches)})

all_nodes(block) == UNION {{block[i]} \cup nested_nodes(block[i]) : i \in 1..Len(block)}

template_nodes == IF template = None THEN {} ELSE all_nodes(template[1].ast)

is_event(e, ev, span) == e.ev = ev /\ e.span = span

\* the evaluation of the pipeline of the node at span that position e of
\* the trace belongs to: the last one before e
last_eval_before(trace, span, e) ==
    CHOOSE s \in 0..(e - 1) :
        /\ s > 0 => is_event(trace[s], "eval", span)
        /\ \A k \in (s + 1)..(e - 1) : ~is_event(trace[k], "eval", span)

\* how often the then (or else) block of the node at span is entered
\* between positions s and e of the trace
blocks_between(trace, span, tag, s, e) ==
    Cardinality({k \in (s + 1)..(e - 1) :
                    is_event(trace[k], "block", span) /\ trace[k].tag = tag})

is_nonempty_collection(v) == Tag(v) \in {"arr", "obj"} /\ Payload(v) # <<>>

\* the range node evaluated at position s of the trace has returned at e
range_outcome(trace, node, s, e) ==
    IF is_nonempty_collection(trace[s].val)
    THEN /\ blocks_between(trace, node.span, "then", s, e) = Len(Payload(trace[s].val))
         /\ blocks_between(trace, node.span, "else", s, e) = 0
    ELSE /\ blocks_between(trace, node.span, "then", s, e) = 0
         /\ blocks_between(trace, node.span, "else", s, e) =
               IF node.else_block = None THEN 0 ELSE 1

range_branching(trace, node) ==
    /\ \A e \in 1..Len(trace) :
          is_event(trace[e], "exit", node.span) =>
              range_outcome(trace, node, last_eval_before(trace, node.span, e), e)
    /\ \A k \in 1..Len(trace) :
          is_event(trace[k], "block", node.span) =>
              /\ last_eval_before(trace, node.span, k) > 0
              /\ (trace[k].tag = "then") <=>
                    is_nonempty_collection(
                        trace[last_eval_before(trace, node.span, k)].val)

\* C2: whatever value the pipeline of a range node produced, a block of the
\* node is entered only as that value allows (the then-block for a non-empty
\* array or map, the else-block for anything else), and when the node has
\* returned, the then-block was rendered once per element and the else-block
\* never, or the then-block never and the else-block once if it is present.
C2_RangeExhaustiveBranching ==
    \A r \in Callers :
        \A node \in {n \in template_nodes : n.type = "Range"} :
            range_branching(renders[r].trace, node)

\* C2 witness: one render in which a range over two elements rendered its
\* then-block twice and a range over a string rendered its else-block.
C2_RangeBothOutcomesSeen ==
    /\ renders[1].status = "ok"
    /\ \E a, b \in {n \in template_nodes : n.type = "Range"} :
          \E ea, eb \in 1..Len(renders[1].trace) :
              /\ is_event(renders[1].trace[ea], "exit", a.span)
              /\ is_event(renders[1].trace[eb], "exit", b.span)
              /\ blocks_between(renders[1].trace, a.span, "then",
                     last_eval_before(renders[1].trace, a.span, ea), ea) = 2
              /\ blocks_between(renders[1].trace, b.span, "else",
                     last_eval_before(renders[1].trace, b.span, eb), eb) = 1
              /\ Tag(renders[1].trace[last_eval_before(renders[1].trace, b.span, eb)].val)
                    = "str"

scope_names(variables) == UNION {DOMAIN variables[i] : i \in 1..Len(variables)}

\* the context as it is outside the innermost scope
enclosing(ctx) == [ctx EXCEPT !.variables = SubSeq(@, 1, Len(@) - 1)]

\* the innermost scope that binds name
nearest_scope(variables, name) ==
    CHOOSE j \in 1..Len(variables) :
        /\ name \in DOMAIN variables[j]
        /\ \A i \in (j + 1)..Len(variables) : name \notin DOMAIN variables[i]

\* the render is about to run an action {{ names := pipeline }} or
\* {{ names = pipeline }} inside the body of a with or range
binds_in_body(rs, kind) ==
    /\ at_node(rs, "Action")
    /\ current_node(rs).pipeline.declarations # None
    /\ current_node(rs).pipeline.declarations[1].kind = kind
    /\ Len(rs.ctx.variables) >= 2

bound_names(rs) ==
    SeqToSet(current_node(rs).pipeline.declarations[1].variables)

\* the body of a with, or of one iteration of a range, returns
body_ends(rs) == block_done(rs) /\ Top(rs).ret \in {"with", "range"}

\* a step of one render from a to b, as far as scoping goes
scoping_step(a, b) ==
    /\ body_ends(a) =>
          \A name \in scope_names(a.ctx.variables) :
              resolve_variable(b.ctx, name) = resolve_variable(enclosing(a.ctx), name)
    /\ binds_in_body(a, "Declare") /\ b.status = "running" =>
          /\ enclosing(b.ctx).variables = enclosing(a.ctx).variables
          /\ bound_names(a) \subseteq DOMAIN b.ctx.variables[Len(b.ctx.variables)]
    /\ binds_in_body(a, "Assign") =>
          \A name \in bound_names(a) :
              /\ Cardinality(bound_names(a)) = 1
              /\ name \notin DOMAIN a.ctx.variables[Len(a.ctx.variables)]
              /\ name \in scope_names(a.ctx.variables)
              /\ a.trace # b.trace
              /\ b.trace[Len(b.trace)].tag = "ok"
              => /\ b.status = "running"
                 /\ b.ctx.variables =
                       [a.ctx.variables EXCEPT
                           ![nearest_scope(a.ctx.variables, name)] =
                               scope_insert(@, name, b.trace[Len(b.trace)].val)]

\* what the templates of ScopeSources that end a with or range body render
ScopeOutputs(value) ==
    << <<ScopeSources[1],
         IF is_truthy(operand_value(value, ".inner")) THEN "innerouter" ELSE "outer">>,
       <<ScopeSources[2], "[]">>,
       <<ScopeSources[3], "[]">>,
       <<ScopeSources[4], IF is_truthy(operand_value(value, ".inner")) THEN "2" ELSE "1">>,
       <<ScopeSources[5],
         IF is_nonempty_collection(operand_value(value, ".items"))
         THEN value_to_string(
                  range_items(operand_value(value, ".items"))[
                      Len(Payload(operand_value(value, ".items")))][2])
         ELSE "1">> >>

scoping_outputs(source, value, result) ==
    \A i \in 1..Len(ScopeOutputs(value)) :
        source = ScopeOutputs(value)[i][1] => result = Some(<<"Ok", ScopeOutputs(value)[i][2]>>)

\* C3: when the body of a with or range ends, every name resolves as the
\* enclosing scopes bind it, so a name declared with := in the body resolves
\* to its outer value, or to nothing; a := in the body changes no enclosing
\* scope; an = in the body to a name only an enclosing scope binds replaces
\* the value in the nearest such scope and binds nothing in the body's
\* scope; and the sample templates render what this implies.
C3_BodyScopedDeclarations ==
    /\ [](\A r \in Callers :
             Returned(r) /\ Tag(data[r]) = "obj" =>
                 scoping_outputs(parser.source, data[r], renders[r].result))
    /\ [][\A r \in Callers :
             renders'[r] # renders[r] => scoping_step(renders[r], renders'[r])]_vars

\* C3 witness: the with body that declared $x := "inner" beside the outer
\* $x has ended and the template went on to print the outer value.
C3_ShadowedOuterKept ==
    /\ parser.source = ScopeSources[1]
    /\ renders[1].result = Some(<<"Ok", "innerouter">>)

Failed(rs) == rs.status \in {"unwinding", "err"}

call_names(trace) ==
    [j \in 1..Len(events_of(trace, "call")) |-> events_of(trace, "call")[j].tag]

\* the error of evaluating pipeline and binding its value, if there is one
pipeline_error(ctx, pipeline, r) ==
    IF ~r.ok THEN r.error ELSE apply_bindings(ctx, pipeline, r.val).error

\* the error the node a render is at (or the range it is looping) fails with
node_error(rs) ==
    IF Top(rs).k = "range"
    THEN assign_range_bindings(rs.ctx, Top(rs).node[1].pipeline,
             IF Top(rs).i <= Len(Top(rs).items) THEN Some(Top(rs).items[Top(rs).i][1])
             ELSE None,
             IF Top(rs).i <= Len(Top(rs).items) THEN Top(rs).items[Top(rs).i][2]
             ELSE VNull).error
    ELSE IF current_node(rs).type = "Range"
    THEN eval_pipeline(rs.ctx, current_node(rs).pipeline).error
    ELSE pipeline_error(rs.ctx, current_node(rs).pipeline,
                        eval_pipeline(rs.ctx, current_node(rs).pipeline))

\* a step of one render from a to b, as far as failures go
failure_step(a, b) ==
    /\ Failed(a) =>
          /\ Failed(b)
          /\ b.error = a.error
          /\ b.trace = a.trace
          /\ b.output = a.output
    /\ a.status = "running" /\ Failed(b) =>
          /\ b.error.kind = "Render"
          /\ b.error.message # ""
          /\ b.error = node_error(a)
          /\ b.output = a.output

failure_state(rs) ==
    /\ rs.status \in {"running", "ok"} =>
          /\ rs.error = NoError
          /\ \A e \in 1..Len(rs.trace) : rs.trace[e].ev = "eval" => rs.trace[e].tag = "ok"
    /\ Failed(rs) =>
          \A e \in 1..Len(rs.trace) :
              rs.trace[e].ev = "eval" /\ rs.trace[e].tag = "err" => e = Len(rs.trace)
    /\ rs.status = "err" => rs.result = Some(<<"Err", rs.error>>)
    /\ rs.status = "ok" => rs.result = Some(<<"Ok", rs.output>>)
    /\ rs.status \notin {"ok", "err"} => rs.result = None

\* a{{print 1}}{{fail "boom"}}{{print 2}}b fails in its third node
first_failure_sample(source, rs) ==
    source = ErrorSources[1] /\ rs.status = "err" =>
        /\ rs.error = RenderError("boom")
        /\ call_names(rs.trace) = <<"print", "fail">>

\* C4: a render that fails returns Err with the error of the step that
\* failed first; from that step on no pipeline is evaluated, no helper is
\* called and no text is written; and the Err holds the error alone, none
\* of the text written before it.
C4_FirstErrorAborts ==
    /\ [](\A r \in Callers :
             failure_state(renders[r]) /\ first_failure_sample(parser.source, renders[r]))
    /\ [][\A r \in Callers :
             renders'[r] # renders[r] => failure_step(renders[r], renders'[r])]_vars

\* C4 witness: a render returned Err after it had written text and called a
\* helper, with nodes of the template still to come.
C4_FailedAfterOutput ==
    /\ parser.source = ErrorSources[1]
    /\ renders[1].status = "err"
    /\ renders[1].output = "a1"
    /\ renders[1].result = Some(<<"Err", RenderError("boom")>>)

RECURSIVE flatten(_)
flatten(seqs) == IF seqs = <<>> THEN <<>> ELSE Head(seqs) \o flatten(Tail(seqs))

is_prefix(p, q) == Len(p) <= Len(q) /\ SubSeq(q, 1, Len(p)) = p

\* The helpers a pipeline names, in the order of its syntax tree: command by
\* command from the left; for a command, argument by argument from the
\* left, a parenthesised pipeline in full, and then the command's own helper.
RECURSIVE pipeline_calls(_)
expression_calls(expr) ==
    IF expr.kind = "PipelineExpr" THEN pipeline_calls(expr.pipeline) ELSE <<>>

command_calls(command) ==
    IF command.target.kind = "Identifier" /\ command.target.name \in Registry
    THEN flatten([j \in 1..Len(command.args) |-> expression_calls(command.args[j])])
           \o <<command.target.name>>
    ELSE expression_calls(command.target)

pipeline_calls(pipeline) ==
    flatten([j \in 1..Len(pipeline.commands) |-> command_calls(pipeline.commands[j])])

node_at(span) == CHOOSE n \in template_nodes : n.span = span

inside(inner, outer) ==
    /\ outer.start <= inner.start
    /\ inner.end <= outer.end
    /\ inner # outer

\* the position before the calls that lead up to position e of a trace
calls_start(trace, e) ==
    CHOOSE s \in 0..(e - 1) :
        /\ s > 0 => trace[s].ev # "call"
        /\ \A k \in (s + 1)..(e - 1) : trace[k].ev = "call"

\* within one pipeline: the helpers called are the pipeline's, in its order
pipeline_order(trace) ==
    /\ \A e \in 1..Len(trace) :
          trace[e].ev = "eval" =>
              /\ \A k \in (calls_start(trace, e) + 1)..(e - 1) :
                    trace[k].span = trace[e].span
              /\ IF trace[e].tag = "ok"
                 THEN [k \in 1..(e - 1 - calls_start(trace, e)) |->
                          trace[calls_start(trace, e) + k].tag]
                        = pipeline_calls(node_at(trace[e].span).pipeline)
                 ELSE is_prefix([k \in 1..(e - 1 - calls_start(trace, e)) |->
                                    trace[calls_start(trace, e) + k].tag],
                                pipeline_calls(node_at(trace[e].span).pipeline))
    /\ \A k \in 1..Len(trace) :
          trace[k].ev = "call" =>
              \E e \in (k + 1)..Len(trace) :
                  /\ trace[e].ev = "eval"
                  /\ calls_start(trace, e) < k

\* within a block: pipelines are evaluated in source order, except that a
\* range starts the nodes of its body again
block_order(trace) ==
    \A j \in 2..Len(events_of(trace, "eval")) :
        \/ events_of(trace, "eval")[j].span.start > events_of(trace, "eval")[j - 1].span.start
        \/ \E n \in template_nodes :
              /\ n.type = "Range"
              /\ inside(events_of(trace, "eval")[j].span, n.span)
              /\ inside(events_of(trace, "eval")[j - 1].span, n.span)

\* a control node: its pipeline is evaluated, then a block of it is
\* entered, and only then is anything inside it evaluated
control_order(trace) ==
    \A i \in 1..Len(trace) :
        \A n \in template_nodes :
            (n.type \in {"If", "Range", "With"} /\ inside(trace[i].span, n.span)) =>
                \E j, k \in 1..(i - 1) :
                    /\ j < k
                    /\ is_event(trace[j], "eval", n.span) /\ trace[j].tag = "ok"
                    /\ is_event(trace[k], "block", n.span)

\* C5: in the history of a render the helper calls come in the order of the
\* syntax tree: within a pipeline command by command and argument by
\* argument from the left, a parenthesised argument pipeline before the
\* helper it is an argument of; the pipelines of a block in source order;
\* the pipeline of an if, with or range before anything in its body.
C5_CallsInEvaluationOrder ==
    \A r \in Callers :
        /\ pipeline_order(renders[r].trace)
        /\ block_order(renders[r].trace)
        /\ control_order(renders[r].trace)

\* C5 witness: a render that called helpers from nested argument pipelines,
\* a piped command, an if pipeline and the if's body, in that order.
C5_NestedCallsSeen ==
    /\ parser.source = ErrorSources[Len(ErrorSources) - 1]
    /\ renders[1].status = "ok"
    /\ call_names(renders[1].trace) =
          <<"print", "len", "default", "print", "eq", "print", "print">>

\* C6: with two renders of one template interleaved, a step of one render
\* is the step that render would take alone and leaves the other render as
\* it is; each render's context is rooted in its own caller's data; each
\* result is the result of that render run alone; and no step changes a
\* caller's data or the parsed template (its AST and its registry).
C6_InterleavedRendersIndependent ==
    /\ [](\A r \in Callers :
             /\ renders[r].status # "idle" =>
                   /\ renders[r].ctx.root = data[r]
                   /\ renders[r].ctx.stack[1] = data[r]
                   /\ renders[r].ctx.functions = template[1].functions
             /\ Returned(r) => renders[r].result = Template_render(template[1], data[r]))
    /\ [][/\ data' = data
          /\ template # None => template' = template
          /\ \A r \in Callers :
                renders'[r] # renders[r] =>
                    /\ \A o \in Callers \ {r} : renders'[o] = renders[o]
                    /\ renders[r].status # "idle" => renders'[r] = render_step(renders[r])]_vars

\* C6 witness: both renders are under way on different data, each with
\* text written, neither finished.
C6_BothRendersUnderWay ==
    /\ data[1] # data[2]
    /\ \A r \in Callers :
          /\ renders[r].status = "running"
          /\ renders[r].output # ""
          /\ renders[r].frames # <<>>

\* what the evaluation of the one action of a finished render came to:
\* the result returned, and the value or failure of the pipeline
action_outcome(rs) ==
    <<rs.result,
      [j \in 1..Len(events_of(rs.trace, "eval")) |->
          <<events_of(rs.trace, "eval")[j].tag, events_of(rs.trace, "eval")[j].val>>]>>

\* the render of x | g | f gave what the render of f (g x) gives
pipe_equals_nested(source, value, rs, i, g, f) ==
    source = PipeForm(PipeOperands[i], UnaryHelpers[g], UnaryHelpers[f]) =>
        action_outcome(rs) =
            action_outcome(
                render_run(render(value,
                    parse_template(NestedForm(PipeOperands[i], UnaryHelpers[g],
                                              UnaryHelpers[f])).root,
                    Registry)))

\* {{ 1 | print 2 3 }} calls print with 2, 3 and then the piped 1
piped_value_last(source, rs) ==
    source = ErrorSources[Len(ErrorSources)] /\ rs.status = "ok" =>
        /\ Len(events_of(rs.trace, "call")) = 1
        /\ events_of(rs.trace, "call")[1].val = VArr(<<VNum(2), VNum(3), VNum(1)>>)

\* C7 as stated: a helper gets its explicit arguments and then the piped
\* value, and x | g | f gives the value or error of f (g x) for the unary
\* helpers g, f and every expression x.
C7_PipeEqualsNestedForEveryOperand ==
    \A r \in Callers :
        Returned(r) =>
            /\ piped_value_last(parser.source, renders[r])
            /\ \A i \in 1..Len(PipeOperands) :
                  \A g, f \in 1..Len(UnaryHelpers) :
                      pipe_equals_nested(parser.source, data[r], renders[r], i, g, f)

\* C7, amended: a helper gets its explicit arguments and then the piped
\* value, and x | g | f gives the value or error of f (g x) for the unary
\* helpers g, f and every expression x that is not a bare identifier naming
\* a registered helper (as the first command of a pipeline such an x is
\* called, as an argument it is looked up in the dot stack).
C7_PipeEqualsNested ==
    \A r \in Callers :
        Returned(r) =>
            /\ piped_value_last(parser.source, renders[r])
            /\ \A i \in {k \in 1..Len(PipeOperands) : PipeOperands[k] \notin Registry} :
                  \A g, f \in 1..Len(UnaryHelpers) :
                      pipe_equals_nested(parser.source, data[r], renders[r], i, g, f)

\* C7 witness: .items | len | not was rendered over a non-empty array and
\* gave what not (len .items) gives.
C7_PipeRendered ==
    /\ parser.source = PipeForm(".items", "len", "not")
    /\ Tag(operand_value(data[1], ".items")) = "arr"
    /\ operand_value(data[1], ".items") # VArr(<<>>)
    /\ renders[1].result = Some(<<"Ok", "false">>)
    /\ renders[1].result = render_source(NestedForm(".items", "len", "not"), Registry, data[1])

\* the render is about to bind the variables a pipeline declares: an
\* action, if or with evaluates its pipeline and applies the bindings, a
\* range binds for its next iteration, or once when it does not iterate
binding_step(rs) ==
    /\ rs.status = "running"
    /\ rs.frames # <<>>
    /\ \/ at_node(rs, "Action") \/ at_node(rs, "If") \/ at_node(rs, "With")
       \/ Top(rs).k = "range" /\ (Top(rs).i <= Len(Top(rs).items) \/ ~Top(rs).iterated)

binding_pipeline(rs) ==
    IF Top(rs).k = "range" THEN Top(rs).node[1].pipeline ELSE current_node(rs).pipeline

\* the step from a to b got as far as the bindings: the pipeline evaluated
evaluated_ok(a, b) ==
    \/ Top(a).k = "range"
    \/ /\ b.trace # a.trace
       /\ b.trace[Len(b.trace)].ev = "eval"
       /\ b.trace[Len(b.trace)].tag = "ok"

\* the names a range binds: the first two of its declaration
range_targets(names) == SubSeq(names, 1, IF Len(names) < 2 THEN Len(names) ELSE 2)

\* names[k] is the first name of an assignment that no scope binds
first_undefined(variables, names, k) ==
    /\ names[k] \notin scope_names(variables)
    /\ \A j \in 1..(k - 1) : names[j] \in scope_names(variables) /\ names[j] # "$"

assignment_to_undefined_fails(a, b, names) ==
    \A k \in 1..Len(names) :
        first_undefined(a.ctx.variables, names, k) =>
            /\ Failed(b)
            /\ b.error.kind = "Render"
            /\ contains(b.error.message, "variable " \o names[k] \o " not defined")
            /\ names[k] \notin scope_names(b.ctx.variables)

binding_root_fails(b, names) ==
    "$" \in SeqToSet(names) => Failed(b) /\ b.error.kind = "Render"

\* every scope that binds $ binds it to the root datum, and $ resolves to it
root_kept(rs, value) ==
    rs.status # "idle" =>
        /\ resolve_variable(rs.ctx, "$") = value
        /\ \A i \in 1..Len(rs.ctx.variables) :
              "$" \in DOMAIN rs.ctx.variables[i] => rs.ctx.variables[i]["$"] = value

\* C8 as stated: an assignment to a name no scope binds fails with
\* "variable <name> not defined" and binds the name nowhere; every
\* declaration or assignment that names $ among its targets fails with a
\* render error; $ resolves to the root datum throughout.
C8_EveryRootTargetFails ==
    /\ [](\A r \in Callers : root_kept(renders[r], data[r]))
    /\ [][\A r \in Callers :
             (/\ renders'[r] # renders[r]
              /\ binding_step(renders[r])
              /\ binding_pipeline(renders[r]).declarations # None
              /\ evaluated_ok(renders[r], renders'[r])) =>
                 /\ binding_pipeline(renders[r]).declarations[1].kind = "Assign" =>
                       assignment_to_undefined_fails(renders[r], renders'[r],
                           IF Top(renders[r]).k = "range"
                           THEN range_targets(
                                    binding_pipeline(renders[r]).declarations[1].variables)
                           ELSE binding_pipeline(renders[r]).declarations[1].variables)
                 /\ binding_root_fails(renders'[r],
                        binding_pipeline(renders[r]).declarations[1].variables)]_vars

\* What the code does keep of C8: the same, for the names a declaration
\* binds, where a range binds only the first two names of its declaration
\* and passes over a third, $ included.
C8_UndefinedAndRootTargetsFail ==
    /\ [](\A r \in Callers : root_kept(renders[r], data[r]))
    /\ [][\A r \in Callers :
             (/\ renders'[r] # renders[r]
              /\ binding_step(renders[r])
              /\ binding_pipeline(renders[r]).declarations # None
              /\ evaluated_ok(renders[r], renders'[r])) =>
                 /\ binding_pipeline(renders[r]).declarations[1].kind = "Assign" =>
                       assignment_to_undefined_fails(renders[r], renders'[r],
                           IF Top(renders[r]).k = "range"
                           THEN range_targets(
                                    binding_pipeline(renders[r]).declarations[1].variables)
                           ELSE binding_pipeline(renders[r]).declarations[1].variables)
                 /\ binding_root_fails(renders'[r],
                        IF Top(renders[r]).k = "range"
                        THEN range_targets(
                                 binding_pipeline(renders[r]).declarations[1].variables)
                        ELSE binding_pipeline(renders[r]).declarations[1].variables)]_vars

\* Inside a with body, $v = 1 failed for want of a $v, the
\* error is on its way out, and no scope binds $v.
C8_UndefinedAssignmentFailed ==
    /\ parser.source = "{{with .inner}}{{$v = 1}}{{end}}"
    /\ renders[1].status = "unwinding"
    /\ renders[1].error = RenderError("variable $v not defined")
    /\ Len(renders[1].ctx.variables) = 2
    /\ "$v" \notin scope_names(renders[1].ctx.variables)

\* the value of a bare identifier: the entry of the innermost dot that is a
\* map with that key, null when there is none
identifier_holders(stack, name) ==
    {i \in 1..Len(stack) :
        /\ stack[i][1] = "obj"
        /\ \E j \in 1..Len(stack[i][2]) : stack[i][2][j][1] = name}

innermost(holders) == CHOOSE i \in holders : \A j \in holders : j <= i

identifier_value(stack, name) ==
    IF identifier_holders(stack, name) = {} THEN <<"null", 0>>
    ELSE LET dot == stack[innermost(identifier_holders(stack, name))][2]
         IN  dot[CHOOSE j \in 1..Len(dot) : dot[j][1] = name][2]

at_pipeline_node(rs) ==
    at_node(rs, "Action") \/ at_node(rs, "If") \/ at_node(rs, "With") \/ at_node(rs, "Range")

unknown_identifier(command) ==
    command.target.kind = "Identifier" /\ command.target.name \notin Registry

\* the commands before the k-th evaluate
commands_before_ok(ctx, pipeline, k) ==
    k = 1 \/ eval_pipeline(ctx, [pipeline EXCEPT !.commands = SubSeq(@, 1, k - 1),
                                                 !.declarations = None]).ok

\* a step of one render, from a at a node with a pipeline to b
unknown_identifier_step(a, b) ==
    LET node == current_node(a)
        commands == node.pipeline.commands
    IN  \A k \in 1..Len(commands) :
            unknown_identifier(commands[k]) =>
                /\ (commands[k].args # <<>> \/ k > 1) =>
                      /\ Failed(b)
                      /\ commands_before_ok(a.ctx, node.pipeline, k) =>
                            /\ b.error.kind = "Render"
                            /\ contains(b.error.message, "unknown function")
                            /\ contains(b.error.message, commands[k].target.name)
                /\ (commands[k].args = <<>> /\ Len(commands) = 1) =>
                      /\ Len(b.trace) > Len(a.trace)
                      /\ b.trace[Len(a.trace) + 1] =
                            Ev("eval", node.span, "ok",
                               identifier_value(a.ctx.stack, commands[k].target.name))
                      /\ node.pipeline.declarations = None => ~Failed(b)
                      /\ (node.type = "Action" /\ node.pipeline.declarations = None) =>
                            b.output = a.output \o value_to_string(
                                identifier_value(a.ctx.stack, commands[k].target.name))

\* C9: a command whose target is an identifier that names no registered
\* helper fails with "unknown function <name>" when it has arguments or a
\* piped input; without either it never fails, and its value is the entry
\* of the innermost dot that is a map with that key, outer dots being
\* consulted when the innermost is no map or lacks the key, null otherwise.
C9_UnknownIdentifier ==
    [][\A r \in Callers :
          (renders'[r] # renders[r] /\ at_pipeline_node(renders[r])) =>
              unknown_identifier_step(renders[r], renders'[r])]_vars

\* C9 witness: inside {{with .inner}} the bare identifier flag, which the
\* inner map lacks, took the root's value, and name took the inner one.
C9_OuterDotConsulted ==
    /\ parser.source = "{{with .inner}}{{flag}}{{name}}{{end}}"
    /\ renders[1].result = Some(<<"Ok", "truein">>)
    /\ \E j \in 1..Len(renders[1].trace) :
          /\ renders[1].trace[j].ev = "eval"
          /\ renders[1].trace[j].val = <<"bool", TRUE>>

\* an unknown identifier with an argument that would itself fail
C9_UnknownFunctionRaised ==
    /\ parser.source = "{{nope .name.bad}}"
    /\ renders[1].status = "err"
    /\ renders[1].error = RenderError("unknown function \"nope\"")

Unterminated(q) ==
    q.status = "err" /\ q.error.message = "unterminated control structure"

\* the loop of parse_template has been left without an error
source_exhausted(q) ==
    \/ q.status = "finishing"
    \/ q.status = "running" /\ q.cursor >= Len(q.source)

\* the text the span covers is an action that opens an if, range or with
opening_action(source, span, kind) ==
    /\ 0 <= span.start /\ span.start + 4 <= span.end /\ span.end <= Len(source)
    /\ SubSeq(source, span.start + 1, span.start + 2) = "{{"
    /\ SubSeq(source, span.end - 1, span.end) = "}}"
    /\ kind \in {"If", "Range", "With"}
    /\ contains(SubSeq(source, span.start + 1, span.end),
                CASE kind = "If" -> "if" [] kind = "Range" -> "range" [] OTHER -> "with")

\* the span of the j-th of the opening actions a nest source starts with
opener_span(j) == Span(Len(Openers(1, j - 1)), Len(Openers(1, j)))

unterminated_step(p, q) ==
    /\ Unterminated(q) <=> (source_exhausted(p) /\ p.control_stack # <<>>)
    /\ Unterminated(q) =>
          /\ q.error.kind = "Parse"
          /\ q.error.span = Some(p.control_stack[Len(p.control_stack)].start_span)
          /\ opening_action(p.source, q.error.span[1],
                            p.control_stack[Len(p.control_stack)].kind)
          /\ \A j \in 1..(Len(p.control_stack) - 1) :
                p.control_stack[j].start_span.end <= q.error.span[1].start

\* d opening actions, a text and k ends: unterminated when k < d, at the
\* (d - k)-th opening action, and parsed when k = d
nest_outcome(q) ==
    \A pr \in NestPairs :
        (q.source = NestSource(pr[1], pr[2]) /\ q.status \in {"ok", "err", "panic"}) =>
            IF pr[2] < pr[1]
            THEN q.error = ParseError("unterminated control structure",
                                      Some(opener_span(pr[1] - pr[2])))
            ELSE q.status = "ok"

\* C10: parse_template fails with "unterminated control structure" exactly
\* when the end of the source is reached without an earlier error while a
\* frame of an if, range or with is open; the error has the span of the
\* opening action of the innermost open frame; a source whose opening
\* actions are all matched by an end parses.
C10_UnterminatedControlStructure ==
    /\ [](/\ nest_outcome(parser)
          /\ (parser.source = "{{if .flag}}a{{else}}b" /\ Parsed) =>
                 parser.error = ParseError("unterminated control structure",
                                           Some(Span(0, 12)))
          /\ (parser.source = "x {{- if .flag -}} y" /\ Parsed) =>
                 parser.error = ParseError("unterminated control structure",
                                           Some(Span(2, 18)))
          /\ (parser.source = "{{with .inner}}{{if .name}}a{{end}}" /\ Parsed) =>
                 parser.error = ParseError("unterminated control structure",
                                           Some(Span(0, 15))))
    /\ [][parser' # parser => unterminated_step(parser, parser')]_vars

\* C10 witness: of three nested opening actions one was closed and the
\* source ended; the error has the span of the second, the innermost of
\* the two left open.
C10_InnermostOpenFrameReported ==
    /\ parser.source = NestSource(3, 1)
    /\ Unterminated(parser)
    /\ Len(parser.control_stack) = 2
    /\ parser.error.span = Some(Span(12, 28))

\* the canonical string of another source, when it parses
canonical_of(source) == to_template_string(parse_template(source).root)

\* C11: two sources that both parse and differ only in the whitespace
\* between the tokens of their actions have the same to_template_string.
C11_CanonicalIgnoresActionWhitespace ==
    canonical # None =>
        \A f \in WhitespaceForms : \A j, k \in 1..Len(Pads) :
            (/\ parser.source = WhitespaceForm(f, Pads[j])
             /\ parse_template(WhitespaceForm(f, Pads[k])).status = "ok") =>
                canonical[1] = canonical_of(WhitespaceForm(f, Pads[k]))

\* What the code does keep of C11: the whitespace around the body of an
\* action and the whitespace inside the action that opens a control
\* structure do not show in the canonical string.
C11_CanonicalIgnoresOuterAndControlWhitespace ==
    canonical # None =>
        \A f \in {2, 4} : \A j, k \in 1..Len(Pads) :
            (/\ parser.source = WhitespaceForm(f, Pads[j])
             /\ parse_template(WhitespaceForm(f, Pads[k])).status = "ok") =>
                canonical[1] = canonical_of(WhitespaceForm(f, Pads[k]))

TrimmedBytes == {" ", "\t", "\n", "\r"}

\* text without the spaces, tabs, newlines and carriage returns that end it
without_trailing_space(text) ==
    SubSeq(text, 1,
           CHOOSE k \in 0..Len(text) :
               /\ k > 0 => Byte(text, k - 1) \notin TrimmedBytes
               /\ \A j \in k..(Len(text) - 1) : Byte(text, j) \in TrimmedBytes)

\* the action that follows offset at has a left trim marker
left_trim_follows(source, at) ==
    Byte(source, at) = "{" /\ Byte(source, at + 1) = "{" /\ Byte(source, at + 2) = "-"

\* a text node holds the source text between two actions: from the end of
\* the action before it, or from the first byte after the whitespace that
\* follows a right trim marker, up to the next action, and without the
\* whitespace that ends it when that action has a left trim marker
text_as_written(source, node) ==
    /\ node.text =
          IF left_trim_follows(source, node.span.end)
          THEN without_trailing_space(Slice(source, node.span.start, node.span.end))
          ELSE Slice(source, node.span.start, node.span.end)
    /\ \/ node.span.start = 0
       \/ \E e \in 2..node.span.start :
             /\ Byte(source, e - 2) = "}" /\ Byte(source, e - 1) = "}"
             /\ \A j \in e..(node.span.start - 1) : Byte(source, j) \in TrimmedBytes
             /\ e < node.span.start => Byte(source, e - 3) = "-"
             /\ (Byte(source, e - 3) = "-" /\ node.span.start < node.span.end) =>
                   Byte(source, node.span.start) \notin TrimmedBytes

trim_case_output(c) ==
    "a b" \o (IF c[3] THEN "" ELSE TrimSpaces[c[2]])
          \o (IF c[1] = 1 THEN "m" ELSE "")
          \o (IF c[4] THEN "" ELSE TrimSpaces[c[5]]) \o "c d"

\* C12: a left trim marker removes from the output all the spaces, tabs,
\* newlines and carriage returns that end the text before its action or
\* comment, a right trim marker all those that start the text after it,
\* and every other text is rendered as written.
C12_TrimMarkers ==
    /\ template # None =>
          \A node \in template_nodes :
              node.type = "Text" => text_as_written(parser.source, node)
    /\ \A c \in TrimCases :
          (parser.source = TrimCaseSource(c) /\ Returned(1)) =>
              renders[1].result = Some(<<"Ok", trim_case_output(c)>>)
    /\ (parser.source = TrimControlSource /\ renders[1].status = "ok") =>
          renders[1].result =
              Some(<<"Ok", IF map_get(data[1][2], "flag") = Some(<<"bool", TRUE>>)
                           THEN "abd" ELSE "acd">>)

\* C12 witness: a comment with both trim markers between two texts was
\* rendered, and neither the whitespace before nor the one after it is in
\* the output, while the spaces inside the texts are.
C12_BothSidesTrimmed ==
    /\ parser.source = "a b\t\r\n {{- /* c */ -}}\t\r\n c d"
    /\ renders[1].result = Some(<<"Ok", "a bc d">>)

\* the first action of the source is parsed (or has failed)
first_action_done == parser.cursor > 0 \/ Parsed

\* the action of MutingSource(j) ends at the "}}" after its body, the one
\* that is in no string, raw string or comment
muted_braces_passed ==
    \A j \in 1..Len(MutingBodies) :
        (parser.source = MutingSource(j) /\ first_action_done) =>
            /\ find_action_end(parser.source, 2) = Len(MutingBodies[j]) + 2
            /\ parser.status # "err" =>
                  /\ parser.root # <<>>
                  /\ parser.root[1].type \in {"Action", "Comment"}
                  /\ parser.root[1].span = Span(0, Len(MutingBodies[j]) + 4)
            /\ parser.status = "err" =>
                  /\ parser.error.message \notin {"unclosed action", "unclosed comment"}
                  /\ parser.error.span # None
                  /\ parser.error.span[1].end <= Len(MutingBodies[j]) + 2

\* C13: find_action_end returns the first "}}" outside every string, raw
\* string and comment of the action body; when there is none, parsing
\* fails with "unclosed comment" if the body begins with "/*" and with
\* "unclosed action" otherwise (the body being what follows "{{",
\* whitespace, a "-" if there is one, and whitespace).
C13_ActionEndOutsideStringsAndComments ==
    /\ muted_braces_passed
    /\ \A j \in 1..Len(UnclosedSources) :
          (parser.source = UnclosedSources[j][1] /\ first_action_done) =>
              /\ find_action_end(parser.source, 2) = -1
              /\ parser.status = "err"
              /\ parser.error =
                    ParseError(IF UnclosedSources[j][2] THEN "unclosed comment"
                               ELSE "unclosed action",
                               Some(Span(0, Len(parser.source))))

\* C13 witness: the "}}" of an action is inside a comment that is not
\* closed, the source ends, and the parse has failed with "unclosed
\* comment".
C13_MutedBraceReached ==
    /\ parser.source = "{{- /* x }}"
    /\ find_action_end(parser.source, 2) = -1
    /\ parser.error = ParseError("unclosed comment", Some(Span(0, 11)))


\* C14: an else action that carries anything but "if <pipeline>" after
\* the keyword is rejected with a parse error whose message contains
\* "invalid else-if: expected 'if' after 'else'".
C14_ElseWithoutIfRejected ==
    (parser.source \in ElseOtherSources /\ Parsed) =>
        /\ parser.status = "err"
        /\ parser.error.kind = "Parse"
        /\ contains(parser.error.message, "invalid else-if: expected 'if' after 'else'")

\* What the code does keep of C14: such an else action is rejected, with
\* the span of the token after else.
C14_ElseWithTokensRejected ==
    (parser.source \in ElseOtherSources /\ Parsed) =>
        /\ parser.status = "err"
        /\ parser.error.kind = "Parse"
        /\ parser.error.span # None
        /\ SubSeq(parser.source, parser.error.span[1].start + 1, parser.error.span[1].end)
              \in {"with", "range", "."}

\* the numbers of arguments the helper catalog gives for a helper
documented_arity(name, n) ==
    CASE name \in {"eq", "default"} -> n = 2
      [] name \in {"len", "not"} -> n = 1
      [] name = "fail" -> n >= 1
      [] OTHER -> TRUE

\* the helper invocations of a trace that have a wrong number of arguments
wrong_counts(trace) ==
    {e \in 1..Len(trace) :
        /\ trace[e].ev = "call"
        /\ ~documented_arity(trace[e].tag, Len(trace[e].val[2]))}

\* C15: a bundled helper that is called with a number of arguments outside
\* its documented arity returns a render error that has the helper's name
\* and the number of arguments given in its message; none accepts surplus
\* arguments.
C15_WrongArgumentCountRejected ==
    \A r \in Callers : \A e \in wrong_counts(renders[r].trace) :
        /\ Failed(renders[r])
        /\ renders[r].error.kind = "Render"
        /\ contains(renders[r].error.message, renders[r].trace[e].tag)
        /\ contains(renders[r].error.message, nat_to_string(Len(renders[r].trace[e].val[2])))

\* What the code does keep of C15: a helper called with fewer arguments
\* than it needs, and len or not called with more than one, return a
\* render error that names the helper.
C15_TooFewArgumentsRejected ==
    \A r \in Callers : \A e \in wrong_counts(renders[r].trace) :
        (\/ Len(renders[r].trace[e].val[2]) < 1
         \/ renders[r].trace[e].tag \in {"len", "not"}
         \/ Len(renders[r].trace[e].val[2]) < 2 /\ renders[r].trace[e].tag # "fail") =>
            /\ Failed(renders[r])
            /\ renders[r].error.kind = "Render"
            /\ contains(renders[r].error.message, renders[r].trace[e].tag)

\* the node has an indexing or assignment token in its action
has_conservative_token(node) ==
    /\ node.type \in {"Action", "If", "Range", "With"}
    /\ \E j \in 1..Len(node.tokens) :
          node.tokens[j].kind \in {"LeftBracket", "RightBracket", "Declare", "Assign"}

\* C16: in every analysis report, precision is Conservative if and only if
\* there is an issue, has_template_invocation is true if and only if there
\* is a template call, and a token "[", "]", ":=" or "=" in an action or in
\* the pipeline of a control structure makes the report Conservative.
C16_PrecisionFollowsIssues ==
    analysis # None =>
        /\ analysis[1].precision \in {"Precise", "Conservative"}
        /\ analysis[1].precision = "Conservative" <=> analysis[1].issues # <<>>
        /\ analysis[1].has_template_invocation <=> analysis[1].templates # <<>>
        /\ (\E node \in template_nodes : has_conservative_token(node)) =>
              analysis[1].precision = "Conservative"

\* C16 witness: the report of a range with a two-name declaration is
\* Conservative with the issue of its ":=" token, and has no template call.
C16_DeclarationReported ==
    /\ parser.source = "{{range $i, $v := .items}}{{$v}}{{end}}"
    /\ analysis # None
    /\ analysis[1].precision = "Conservative"
    /\ Len(analysis[1].issues) = 1
    /\ analysis[1].issues[1].span = Some(Span(15, 17))
    /\ ~analysis[1].has_template_invocation

\* the calls of the helper name in a pipeline, the pipelines in parentheses
\* included
RECURSIVE calls_in_commands(_, _, _)
RECURSIVE calls_in_args(_, _, _)

calls_in_expr(expr, name) ==
    IF expr.kind = "PipelineExpr" THEN calls_in_commands(expr.pipeline.commands, 1, name)
    ELSE 0

calls_in_args(args, i, name) ==
    IF i > Len(args) THEN 0
    ELSE calls_in_expr(args[i], name) + calls_in_args(args, i + 1, name)

calls_in_commands(commands, i, name) ==
    IF i > Len(commands) THEN 0
    ELSE (IF commands[i].target.kind = "Identifier" /\ commands[i].target.name = name
          THEN 1 ELSE 0)
           + calls_in_expr(commands[i].target, name)
           + calls_in_args(commands[i].args, 1, name)
           + calls_in_commands(commands, i + 1, name)

\* the names the analyzer takes for template invocations or control words
NotHelpers == {"template", "block", "if", "range", "with", "define", "else", "end"}

\* the identifiers in command position in a pipeline
RECURSIVE names_in_commands(_, _)
RECURSIVE names_in_args(_, _)

names_in_expr(expr) ==
    IF expr.kind = "PipelineExpr" THEN names_in_commands(expr.pipeline.commands, 1) ELSE {}

names_in_args(args, i) ==
    IF i > Len(args) THEN {} ELSE names_in_expr(args[i]) \cup names_in_args(args, i + 1)

names_in_commands(commands, i) ==
    IF i > Len(commands) THEN {}
    ELSE (IF commands[i].target.kind = "Identifier" THEN {commands[i].target.name} ELSE {})
           \cup names_in_expr(commands[i].target)
           \cup names_in_args(commands[i].args, 1)
           \cup names_in_commands(commands, i + 1)

\* the helpers called in the pipelines of the template
helper_names ==
    UNION {names_in_commands(node.pipeline.commands, 1) :
           node \in {n \in template_nodes : n.type \in {"Action", "If", "Range", "With"}}}
      \ NotHelpers

\* the entries of report.functions for the helper name at the node span
reported_calls(report, name, span) ==
    Cardinality({k \in 1..Len(report.functions) :
                    report.functions[k].name = name /\ report.functions[k].span = span})

\* the report has one entry per call of a helper in the pipeline of every
\* node of the template, each with the source the registry gives
calls_reported_once(report) ==
    /\ \A node \in template_nodes :
          node.type \in {"Action", "If", "Range", "With"} =>
              \A name \in helper_names :
                  reported_calls(report, name, node.span) =
                      calls_in_commands(node.pipeline.commands, 1, name)
    /\ \A k \in 1..Len(report.functions) :
          /\ report.functions[k].name \in helper_names
          /\ \E node \in template_nodes : node.span = report.functions[k].span
          /\ report.functions[k].source = "Registered" <=>
                report.functions[k].name \in template[1].functions

\* C17: the analyzer reports every helper call exactly once in
\* report.functions, the call in the pipeline of an else-if branch of a
\* template that parses included, and its source is Registered exactly when
\* the registry contains the name.
C17_EveryHelperCallReportedOnce ==
    /\ parser.source = ElseIfHelperSource => parser.status \notin {"err", "panic"}
    /\ analysis # None =>
          /\ calls_reported_once(analysis[1])
          /\ parser.source = ElseIfHelperSource =>
                Cardinality({k \in 1..Len(analysis[1].functions) :
                                analysis[1].functions[k].name = "print"}) = 1

\* In every template that parses, each helper call of a pipeline is
\* reported exactly once with the span of its node, and Registered exactly
\* when the registry contains its name.
C17_HelperCallsOfParsedTemplates ==
    analysis # None => calls_reported_once(analysis[1])

\* a report with a helper called twice, once registered and once not
C17_NestedHelpersReported ==
    /\ analysis # None
    /\ \E k, l \in 1..Len(analysis[1].functions) :
          /\ analysis[1].functions[k].name = "nope"
          /\ analysis[1].functions[k].source = "Unknown"
          /\ analysis[1].functions[l].name = "print"
          /\ analysis[1].functions[l].source = "Registered"
          /\ analysis[1].functions[l].span = analysis[1].functions[k].span

\* the render of caller r has just chosen a branch of the if at offset 0
branch_chosen(r) ==
    /\ renders[r].trace # <<>>
    /\ renders[r].trace[Len(renders[r].trace)].ev = "block"
    /\ renders[r].trace[Len(renders[r].trace)].span.start = 0

\* C18: in {{if $x := p}}T{{else}}E{{end}} the variable $x is bound to the
\* value of p before the branch is chosen, and resolves to it inside T when
\* the value is truthy and inside E when it is falsy.
C18_IfDeclarationVisibleInBothBranches ==
    \A i \in 1..Len(IfDeclOperands) :
        parser.source = IfDeclForm(IfDeclOperands[i]) =>
            /\ parser.status \notin {"err", "panic"}
            /\ \A r \in Callers :
                  Tag(data[r]) = "obj" =>
                      /\ branch_chosen(r) =>
                            /\ renders[r].trace[Len(renders[r].trace)].tag =
                                  IF is_truthy(operand_value(data[r], IfDeclOperands[i]))
                                  THEN "then" ELSE "else"
                            /\ "$x" \in DOMAIN renders[r].ctx.variables[
                                                  Len(renders[r].ctx.variables)]
                            /\ resolve_variable(renders[r].ctx, "$x") =
                                  operand_value(data[r], IfDeclOperands[i])
                      /\ Returned(r) =>
                            renders[r].result =
                                Some(<<"Ok",
                                       (IF is_truthy(operand_value(data[r], IfDeclOperands[i]))
                                        THEN "T" ELSE "E")
                                         \o value_to_string(
                                                operand_value(data[r], IfDeclOperands[i]))>>)

\* C18 witness: a render took the else block with $x bound to the falsy
\* value false and returned "Efalse".
C18_ElseBlockSawDeclaration ==
    /\ parser.source = IfDeclForm(".flag")
    /\ \E r \in Callers :
          /\ Returned(r)
          /\ operand_value(data[r], ".flag") = VBool(FALSE)
          /\ renders[r].result = Some(<<"Ok", "Efalse">>)
          /\ \E k \in 1..Len(renders[r].trace) :
                renders[r].trace[k].ev = "block" /\ renders[r].trace[k].tag = "else"

\* the range nodes with a := declaration whose else block the render of
\* caller r has just entered
else_entered_ranges(r) ==
    IF renders[r].trace = <<>> THEN {}
    ELSE {node \in template_nodes :
             /\ node.type = "Range"
             /\ node.pipeline.declarations # None
             /\ node.pipeline.declarations[1].kind = "Declare"
             /\ renders[r].trace[Len(renders[r].trace)].ev = "block"
             /\ renders[r].trace[Len(renders[r].trace)].tag = "else"
             /\ renders[r].trace[Len(renders[r].trace)].span = node.span}

\* C19: when a range with declarations does not iterate, every declared
\* name, however many there are and whatever they were bound to before,
\* resolves to null when the else block is entered, and the else blocks that
\* write the names write nothing for them.
C19_RangeNamesNullInElse ==
    \A r \in Callers :
        /\ \A node \in else_entered_ranges(r) :
              \A k \in 1..Len(node.pipeline.declarations[1].variables) :
                  resolve_variable(renders[r].ctx, node.pipeline.declarations[1].variables[k])
                    = VNull
        /\ \A j \in 1..Len(RangeDeclSources) :
              /\ parser.source = RangeDeclSources[j]
              /\ Returned(r)
              /\ renders[r].result[1][1] = "Ok"
              /\ \E k \in 1..Len(renders[r].trace) : renders[r].trace[k].tag = "else"
              => renders[r].result[1][2] = "[]"

\* In the else block of a range with declarations that did not iterate, the
\* first two declared names resolve to null.
C19_FirstTwoRangeNamesNullInElse ==
    \A r \in Callers :
        \A node \in else_entered_ranges(r) :
            \A k \in 1..Len(range_targets(node.pipeline.declarations[1].variables)) :
                resolve_variable(renders[r].ctx, node.pipeline.declarations[1].variables[k])
                  = VNull

\* a render entered the else block of a range whose two names were bound
\* before
C19_ReboundNamesNull ==
    /\ parser.source = RangeDeclSources[3]
    /\ \E r \in Callers :
          /\ else_entered_ranges(r) # {}
          /\ resolve_variable(renders[r].ctx, "$a") = VNull
          /\ resolve_variable(renders[r].ctx, "$b") = VNull

\* what one iteration of RangeOrderSources[form] writes for (key, value)
iteration_output(form, key, value) ==
    CASE form = 1 -> "[" \o value_to_string(value) \o "]"
      [] form = 2 -> value_to_string(value) \o "=" \o value_to_string(value) \o ";"
      [] form = 3 -> key \o ":" \o value_to_string(value) \o "="
                       \o value_to_string(value) \o ";"

\* the iterations over the elements j.. of an array or the entries j.. of a
\* map, in index order or in the order of insertion
RECURSIVE iterations_output(_, _, _)
iterations_output(form, items, j) ==
    IF j > Len(Payload(items)) THEN ""
    ELSE (IF Tag(items) = "arr"
          THEN iteration_output(form, nat_to_string(j - 1), Payload(items)[j])
          ELSE iteration_output(form, Payload(items)[j][1], Payload(items)[j][2]))
           \o iterations_output(form, items, j + 1)

non_empty_collection(v) == Tag(v) \in {"arr", "obj"} /\ Payload(v) # <<>>

same_outcome(h, l) ==
    /\ h.op = l.op
    /\ h.op # "new" => h.ok = l.ok /\ h.error = l.error
    /\ h.op = "eval" =>
          /\ h.val = l.val
          /\ Len(h.calls) = Len(l.calls)
          /\ \A j \in 1..Len(h.calls) :
                h.calls[j][1] = l.calls[j][1] /\ h.calls[j][2] = l.calls[j][2]

\* every helper invoked from the hot context was handed a context with the
\* dot stack and the variables of the legacy context
same_helper_view(h, legacy) ==
    h.op = "eval" =>
        \A j \in 1..Len(h.calls) :
            /\ h.calls[j][3].root = legacy.root
            /\ h.calls[j][3].stack = legacy.stack
            /\ h.calls[j][3].variables = legacy.variables

\* C21: after every sequence of push-scope, pop-scope, declare, assign and
\* range-binding operations, EvalContextHot and EvalContext give the same
\* value or the same render error for every pipeline, and a slow helper
\* invoked from the hot context receives the same arguments and sees the
\* same dot stack and variables as in the legacy context.
C21_HotAndLegacyContextsAgree ==
    contexts # None =>
        /\ same_outcome(contexts[1].hot_outcome, contexts[1].legacy_outcome)
        /\ same_helper_view(contexts[1].hot_outcome, contexts[1].legacy)
        /\ contexts[1].hot.stack = contexts[1].legacy.stack

\* a scope without the entry "." that push_scope_slot adds
without_dot(scope) == [k \in (DOMAIN scope) \ {"."} |-> scope[k]]

\* Apart from the entry "." of the pushed scopes, the two contexts hold the
\* same stacks, the binding operations have the same outcome, and every
\* pipeline of the parser evaluates alike with the same helper arguments.
C21_ContextsAgreeApartFromDotEntry ==
    contexts # None =>
        /\ contexts[1].hot.stack = contexts[1].legacy.stack
        /\ contexts[1].hot.root = contexts[1].legacy.root
        /\ Len(contexts[1].hot.variables) = Len(contexts[1].legacy.variables)
        /\ \A j \in 1..Len(contexts[1].hot.variables) :
              without_dot(contexts[1].hot.variables[j]) = contexts[1].legacy.variables[j]
        /\ contexts[1].hot_outcome.op = "bind" =>
              same_outcome(contexts[1].hot_outcome, contexts[1].legacy_outcome)
        /\ contexts[1].hot_outcome.op = "eval"
              /\ contexts[1].hot_outcome.val = contexts[1].legacy_outcome.val
              => same_outcome(contexts[1].hot_outcome, contexts[1].legacy_outcome)

\* a helper was invoked from a hot context with a pushed scope
C21_HelperInvokedInPushedScope ==
    /\ contexts # None
    /\ Len(contexts[1].hot.stack) > 1
    /\ contexts[1].hot_outcome.op = "eval"
    /\ contexts[1].hot_outcome.calls # <<>>

\* the Field expressions of a pipeline, those of nested pipelines included
RECURSIVE fields_in_commands(_, _)
RECURSIVE fields_in_args(_, _)

fields_in_expr(expr) ==
    CASE expr.kind = "Field" -> {expr.parts}
      [] expr.kind = "PipelineExpr" -> fields_in_commands(expr.pipeline.commands, 1)
      [] OTHER -> {}

fields_in_args(args, i) ==
    IF i > Len(args) THEN {} ELSE fields_in_expr(args[i]) \cup fields_in_args(args, i + 1)

fields_in_commands(commands, i) ==
    IF i > Len(commands) THEN {}
    ELSE fields_in_expr(commands[i].target) \cup fields_in_args(commands[i].args, 1)
           \cup fields_in_commands(commands, i + 1)

\* a field path as contiguous bytes: .a.b, or $x.a for a path from a variable
path_text(parts) ==
    IF parts # <<>> /\ StartsWith(parts[1], "$") THEN join(parts, ".")
    ELSE "." \o join(parts, ".")

pipeline_nodes == {n \in template_nodes : n.type \in {"Action", "If", "Range", "With"}}

\* the one command of the action that is the whole template
only_command == template[1].ast[1].pipeline.commands[1]

\* C22: every Field path of a parsed template is byte-contiguous in the
\* source: its segments and dots are written without anything between
\* them; .a.b is one Field of two segments, .a .b is two Fields, and . a
\* and .a. b are a Field followed by a separate expression.
C22_FieldPathsContiguous ==
    template # None =>
        /\ \A node \in pipeline_nodes :
              \A parts \in fields_in_commands(node.pipeline.commands, 1) :
                  contains(Slice(parser.source, node.span.start, node.span.end),
                           path_text(parts))
        /\ parser.source = "{{.a.b}}" =>
              only_command = Command(EField(<<"a", "b">>), <<>>)
        /\ parser.source = "{{.a .b}}" =>
              only_command = Command(EField(<<"a">>), <<EField(<<"b">>)>>)
        /\ parser.source = "{{. a}}" =>
              only_command = Command(EField(<<>>), <<EIdentifier("a")>>)
        /\ parser.source = "{{.a. b}}" =>
              only_command = Command(EField(<<"a">>), <<EField(<<>>), EIdentifier("b")>>)

\* A dot that does not start where the previous token ended starts a new
\* Field: .a.b is one Field of two segments and .a .b is two Fields.
C22_DotContinuesOnlyWhenAdjacent ==
    template # None =>
        /\ parser.source = "{{.a.b}}" =>
              only_command = Command(EField(<<"a", "b">>), <<>>)
        /\ parser.source = "{{.a .b}}" =>
              only_command = Command(EField(<<"a">>), <<EField(<<"b">>)>>)
        /\ parser.source = "{{$x .a}}" =>
              only_command = Command(EVariable("$x"), <<EField(<<"a">>)>>)
        /\ parser.source = "{{$x.a}}" =>
              only_command = Command(EField(<<"$x", "a">>), <<>>)

\* C23: lexing and parsing .items.0.name yields a single Field whose
\* segments are items, 0, name, and evaluating it against data whose items
\* is [{"name": v}] yields v.
C23_NumericSegmentAnywhere ==
    parser.source = "{{.items.0.name}}" =>
        /\ parser.status \notin {"err", "panic"}
        /\ template # None =>
              /\ only_command = Command(EField(<<"items", "0", "name">>), <<>>)
              /\ \A r \in Callers :
                    Returned(r) /\ operand_value(data[r], ".items") = RowArray =>
                        renders[r].result = Some(<<"Ok", "in">>)

\* A numeric segment that ends the path is one segment of the Field, and
\* the path indexes the array: .items.0 over [{"name": "in", ...}] gives
\* the first element.
C23_NumericLastSegment ==
    parser.source = "{{.items.0}}" =>
        /\ parser.status \notin {"err", "panic"}
        /\ template # None =>
              /\ only_command = Command(EField(<<"items", "0">>), <<>>)
              /\ \A r \in Callers :
                    Returned(r) /\ operand_value(data[r], ".items") = RowArray =>
                        renders[r].result = Some(<<"Ok", value_to_string(RowArray[2][1])>>)

\* what one segment selects from a map or an array, null when the key is
\* missing or the index is past the end
segment_of(value, part) ==
    IF Tag(value) = "obj"
    THEN (IF map_get(Payload(value), part) = None THEN VNull
          ELSE map_get(Payload(value), part)[1])
    ELSE (IF digits_value(part, 0, 0) < Len(Payload(value))
          THEN Payload(value)[digits_value(part, 0, 0) + 1] ELSE VNull)

\* some segment from the i-th on meets a value that is neither a map nor
\* an array, or meets an array without being an unsigned decimal integer
RECURSIVE segment_misapplied(_, _, _)
segment_misapplied(value, parts, i) ==
    IF i > Len(parts) THEN FALSE
    ELSE IF Tag(value) \notin {"obj", "arr"} THEN TRUE
    ELSE IF Tag(value) = "arr" /\ ~all_digits(parts[i]) THEN TRUE
    ELSE segment_misapplied(segment_of(value, parts[i]), parts, i + 1)

\* the template is one action whose pipeline is one Field path of dot
field_action ==
    /\ template # None
    /\ Len(template[1].ast) = 1
    /\ template[1].ast[1].type = "Action"
    /\ template[1].ast[1].pipeline.declarations = None
    /\ Len(template[1].ast[1].pipeline.commands) = 1
    /\ only_command.target.kind = "Field"
    /\ only_command.args = <<>>
    /\ only_command.target.parts # <<>>
    /\ ~StartsWith(only_command.target.parts[1], "$")

\* C24: evaluating a Field path never fails for a missing key or an index
\* out of range; it fails with a render error exactly when a segment meets a
\* value that is neither a map nor an array (a null from an earlier missing
\* key included) or a segment that is not an unsigned decimal integer meets
\* an array.
C24_FieldFailsOnlyOnNonContainer ==
    field_action =>
        \A r \in Callers :
            Returned(r) =>
                (renders[r].status = "err"
                    <=> segment_misapplied(data[r], only_command.target.parts, 1))

\* a path whose key is missing from the map has rendered without an error
C24_MissingKeyRendered ==
    /\ field_action
    /\ \E r \in Callers :
          /\ renders[r].status = "ok"
          /\ Tag(data[r]) = "obj"
          /\ map_get(Payload(data[r]), only_command.target.parts[1]) = None

\* the root block
root_nodes == template[1].ast

\* C25: in every parsed template the spans of the root block's nodes are
\* adjacent and disjoint: the first starts at 0, each starts where the one
\* before it ends, and the last ends at the length of the source, also
\* when actions carry trim markers.
C25_RootSpansAdjacent ==
    template # None /\ root_nodes # <<>> =>
        /\ root_nodes[1].span.start = 0
        /\ root_nodes[Len(root_nodes)].span.end = Len(parser.source)
        /\ \A i \in 1..Len(root_nodes) : root_nodes[i].span.start <= root_nodes[i].span.end
        /\ \A i \in 1..(Len(root_nodes) - 1) :
              root_nodes[i + 1].span.start = root_nodes[i].span.end

\* The root block's nodes are in source order with disjoint spans, and
\* what lies between two of them, before the first or after the last is
\* only the whitespace that a right trim marker skipped.
C25_RootSpansOrderedGapsAreTrimmedSpace ==
    template # None /\ root_nodes # <<>> =>
        /\ root_nodes[1].span.start = 0
        /\ \A i \in 1..Len(root_nodes) : root_nodes[i].span.start <= root_nodes[i].span.end
        /\ \A i \in 1..Len(root_nodes) :
              LET gap_start == root_nodes[i].span.end
                  gap_end == IF i = Len(root_nodes) THEN Len(parser.source)
                             ELSE root_nodes[i + 1].span.start
              IN /\ gap_start <= gap_end
                 /\ gap_start < gap_end =>
                       /\ Slice(parser.source, gap_start - 3, gap_start) = "-}}"
                       /\ \A k \in gap_start..(gap_end - 1) :
                             is_trim_space(Byte(parser.source, k))

\* a parsed template whose action with a right trim marker is followed by
\* whitespace and a text
C25_RightTrimBeforeText ==
    /\ template # None
    /\ \E i \in 1..(Len(root_nodes) - 1) :
          /\ root_nodes[i].type = "Action"
          /\ root_nodes[i].trim_right
          /\ root_nodes[i + 1].type = "Text"
          /\ is_trim_space(Byte(parser.source, root_nodes[i].span.end))

\* the text a Text node's span covers in the source
span_text(node) == Slice(parser.source, node.span.start, node.span.end)

\* C26: no parsed template holds a Text node whose text is empty, also for
\* an empty source and after a left trim marker removed all of the text
\* before it.
C26_NoEmptyTextNode ==
    \A node \in template_nodes : node.type = "Text" => node.text # ""

\* C26 as the parser has it: a Text node's span is never empty apart from
\* the one node of an empty source, and its text is empty only for that
\* node or when the span holds nothing but whitespace that the left trim
\* marker of the action right after it removed.
C26_EmptyTextOnlyEmptySourceOrLeftTrim ==
    \A node \in template_nodes :
        node.type = "Text" =>
            /\ node.span.start = node.span.end => parser.source = ""
            /\ node.text = "" =>
                  \/ parser.source = ""
                  \/ /\ strip_trailing_trim_space(span_text(node)) = ""
                     /\ Slice(parser.source, node.span.end, node.span.end + 3) = "{{-"
            /\ node.text # span_text(node) =>
                  /\ node.text = strip_trailing_trim_space(span_text(node))
                  /\ Slice(parser.source, node.span.end, node.span.end + 3) = "{{-"

\* text between two actions was elided: a parsed template whose root holds
\* two nodes that are not Text next to each other
C26_EmptyTextElided ==
    /\ template # None
    /\ \E i \in 1..(Len(root_nodes) - 1) :
          /\ root_nodes[i].type # "Text"
          /\ root_nodes[i + 1].type # "Text"
          /\ root_nodes[i + 1].span.start = root_nodes[i].span.end

\* a parsed template of a source that is not empty holds a Text node
\* whose text a left trim marker emptied
C26_LeftTrimEmptiedText ==
    /\ parser.source # ""
    /\ \E node \in template_nodes :
          /\ node.type = "Text"
          /\ node.text = ""
          /\ node.span.start < node.span.end

\* the slice helper was called on a string or an array of length len with
\* at most two indices, all of them integers
slice_called == slices # None /\ slices[1].result # None

slice_target == slices[1].args[1]

slice_indices == Tail(slices[1].args)

slice_result == slices[1].result[1]

integer_indices ==
    /\ Len(slice_indices) <= 2
    /\ \A i \in 1..Len(slice_indices) : Tag(slice_indices[i]) = "num"

slice_start == IF Len(slice_indices) >= 1 THEN Payload(slice_indices[1]) ELSE 0

\* the elements of the target: the bytes of a string, the items of an array
target_len ==
    IF Tag(slice_target) = "str" THEN str_len(Payload(slice_target))
    ELSE Len(Payload(slice_target))

slice_end == IF Len(slice_indices) >= 2 THEN Payload(slice_indices[2]) ELSE target_len

has_negative_index == \E i \in 1..Len(slice_indices) : Payload(slice_indices[i]) < 0

in_range == 0 <= slice_start /\ slice_start <= slice_end /\ slice_end <= target_len

\* the elements of an array at the positions start..end-1
array_elements == [i \in 1..(slice_end - slice_start) |-> Payload(slice_target)[slice_start + i]]

\* the string's bytes at start..end-1 are the characters from the one that
\* starts at byte start to the one that ends at byte end
string_elements(text) ==
    \E a, b \in 0..Len(Payload(slice_target)) :
        /\ byte_offset(Payload(slice_target), a) = slice_start
        /\ byte_offset(Payload(slice_target), b) = slice_end
        /\ text = Slice(Payload(slice_target), a, b)

returns_elements ==
    /\ slice_result.ok
    /\ Tag(slice_target) = "arr" => slice_result.val = VArr(array_elements)
    /\ Tag(slice_target) = "str" =>
          Tag(slice_result.val) = "str" /\ string_elements(Payload(slice_result.val))

\* C27: for a string or array of length len and integer indices the slice
\* helper returns exactly the elements start..end-1 when
\* 0 <= start <= end <= len (start 0 and end len when left out), and the
\* render error "slice indices out of range" for every other combination;
\* a negative index is always an error.
C27_SliceValidatesThenSlices ==
    slice_called /\ Tag(slice_target) \in {"str", "arr"} /\ integer_indices =>
        IF has_negative_index THEN ~slice_result.ok
        ELSE IF in_range THEN returns_elements
        ELSE slice_result = HErr("slice indices out of range")

\* C27 as the helper has it: a range of a string that is in range but does
\* not start and end on character boundaries is the render error "slice
\* indices not on char boundaries".
C27_SliceValidatesThenSlicesOnBoundaries ==
    slice_called /\ Tag(slice_target) \in {"str", "arr"} /\ integer_indices =>
        IF has_negative_index THEN ~slice_result.ok
        ELSE IF ~in_range THEN slice_result = HErr("slice indices out of range")
        ELSE IF Tag(slice_target) = "str"
                  /\ ~(is_char_boundary(Payload(slice_target), slice_start)
                         /\ is_char_boundary(Payload(slice_target), slice_end))
        THEN slice_result = HErr("slice indices not on char boundaries")
        ELSE returns_elements

\* the helper returned a proper part of its target
C27_SlicedInRange ==
    /\ slice_called
    /\ Tag(slice_target) \in {"str", "arr"}
    /\ integer_indices
    /\ Len(slice_indices) = 2
    /\ 0 < slice_start /\ slice_start < slice_end /\ slice_end < target_len
    /\ slice_result.ok

\* the append-target stack lies over the control-frame stack: Root at the
\* bottom, then one Then or Else target per frame, in the frames' order
targets_mirror_controls ==
    /\ Len(parser.target_stack) = Len(parser.control_stack) + 1
    /\ parser.target_stack[1] = TargetRoot
    /\ \A i \in 1..Len(parser.control_stack) :
          /\ parser.target_stack[i + 1].kind \in {"Then", "Else"}
          /\ parser.target_stack[i + 1].idx = i - 1
          /\ parser.target_stack[i + 1].kind = "Else" =>
                parser.control_stack[i].else_block # None

\* the span of the parse error is that of a whole action
error_at_action ==
    /\ parser.status = "err"
    /\ parser.error.span # None
    /\ parser.error.span[1].end - parser.error.span[1].start >= 4
    /\ Slice(parser.source, parser.error.span[1].start, parser.error.span[1].start + 2) = "{{"
    /\ Slice(parser.source, parser.error.span[1].end - 2, parser.error.span[1].end) = "}}"

error_action_tokens ==
    lex_action(trim_action_delimiters(parser.source, parser.error.span[1].start,
                                      parser.error.span[1].end - 2).body, 0)

\* the keyword that is the whole body of the action the parse failed at
error_action_keyword ==
    IF error_at_action /\ error_action_tokens.ok /\ Len(error_action_tokens.tokens) = 1
         /\ error_action_tokens.tokens[1].kind = "Keyword"
    THEN error_action_tokens.tokens[1].text
    ELSE ""

\* C28: after every processed action the append-target stack has one more
\* entry than the control-frame stack, Root at the bottom and above it the
\* i-th entry naming frame i-1 as Then or Else, Else only when the frame
\* has an else block; so no parse ends in "mismatched end", "mismatched
\* else" or "nested block closed out of order", and an end or else with no
\* open frame ends it in "unexpected end" or "unexpected else".
C28_TargetsMirrorControls ==
    /\ parser.status \in {"running", "finishing", "ok"} => targets_mirror_controls
    /\ parser.status = "err" =>
          /\ parser.error.message \notin
                {"mismatched end", "mismatched else", "nested block closed out of order"}
          /\ parser.control_stack = <<>> /\ error_action_keyword = "end" =>
                parser.error.message = "unexpected end"
          /\ parser.control_stack = <<>> /\ error_action_keyword = "else" =>
                parser.error.message = "unexpected else"

\* two frames are open and the inner one is in its else block
C28_NestedElseOpen ==
    /\ parser.status = "running"
    /\ Len(parser.control_stack) >= 2
    /\ parser.target_stack[Len(parser.target_stack)].kind = "Else"

\* the then-blocks of with and range nodes that a render is inside of
scoped_frames(rs) ==
    Cardinality({i \in 1..Len(rs.frames) :
                    rs.frames[i].k = "block" /\ rs.frames[i].ret \in {"with", "range"}})

\* the dot stack and the variable stack of a context over the root datum
stacks_aligned(ctx, root) ==
    /\ Len(ctx.stack) = Len(ctx.variables)
    /\ Len(ctx.stack) >= 1
    /\ ctx.stack[1] = root
    /\ \A i \in 1..Len(ctx.variables) :
          "$" \in DOMAIN ctx.variables[i] /\ ctx.variables[i]["$"] = root
    /\ Len(ctx.stack) = 1 => pop_scope(ctx) = ctx

\* C29: in every state of a render the dot stack and the variable stack
\* have the same depth, at least 1, the bottom dot is the root datum and
\* every scope binds $ to it; the depth is 1 plus the number of with and
\* range bodies the render is inside of, so that every if, with and range
\* node leaves the stacks at the depth it found, whether its body succeeds
\* or fails; pop_scope on a context of depth 1 changes nothing.
C29_ScopeStacksBalanced ==
    /\ \A r \in Callers :
          renders[r].status # "idle" =>
              /\ stacks_aligned(renders[r].ctx, data[r])
              /\ Len(renders[r].ctx.stack) = 1 + scoped_frames(renders[r])
              /\ Returned(r) => Len(renders[r].ctx.stack) = 1
    /\ contexts # None => stacks_aligned(contexts[1].legacy, contexts[1].legacy.root)

\* a body in a pushed scope has failed and the error is on its way out
C29_FailedInsideScope ==
    \E r \in Callers :
        /\ renders[r].status = "unwinding"
        /\ Len(renders[r].ctx.stack) >= 2

\* what a returned render wrote
rendered_text(r) == renders[r].result[1][2]

rendered_ok(r) == renders[r].status = "ok"

\* the outermost scope of variables of a render
outer_scope(r) == renders[r].ctx.variables[1]

bracketed(value) == "[" \o value_to_string(value) \o "]"

\* the key and the value of the last element a range over value visits
last_key(value) ==
    IF Tag(value) = "arr" THEN VNum(Len(Payload(value)) - 1)
    ELSE VStr(Payload(value)[Len(Payload(value))][1])

last_value(value) ==
    IF Tag(value) = "arr" THEN Payload(value)[Len(Payload(value))]
    ELSE Payload(value)[Len(Payload(value))][2]

iterable(value) == Tag(value) \in {"arr", "obj"} /\ Len(Payload(value)) > 0

\* C30: names declared in the header of an if, a with or a range are bound
\* in the scope around the construct and if pushes no scope: after the end
\* the header names, and names declared in the body of an if, still have
\* their last value, and the header names of a range have the index and
\* the value of the last element.
C30_HeaderVariablesOutliveConstruct ==
    \A r \in Callers :
        rendered_ok(r) =>
            /\ parser.source = WithHeaderSource =>
                  /\ outer_scope(r)["$x"] = operand_value(data[r], ".inner")
                  /\ rendered_text(r)
                        = "a" \o bracketed(operand_value(operand_value(data[r], ".inner"), ".name"))
            /\ parser.source = RangeHeaderSource /\ iterable(operand_value(data[r], ".items")) =>
                  /\ outer_scope(r)["$i"] = last_key(operand_value(data[r], ".items"))
                  /\ outer_scope(r)["$v"] = last_value(operand_value(data[r], ".items"))
                  /\ EndsWith(rendered_text(r),
                              "x[" \o value_to_string(last_key(operand_value(data[r], ".items")))
                                 \o value_to_string(last_value(operand_value(data[r], ".items")))
                                 \o "]")
            /\ parser.source = RangeValueSource /\ iterable(operand_value(data[r], ".items")) =>
                  /\ outer_scope(r)["$v"] = last_value(operand_value(data[r], ".items"))
                  /\ EndsWith(rendered_text(r),
                              "x" \o bracketed(last_value(operand_value(data[r], ".items"))))
            /\ parser.source = IfHeaderSource =>
                  /\ outer_scope(r)["$x"] = operand_value(data[r], ".name")
                  /\ EndsWith(rendered_text(r), bracketed(operand_value(data[r], ".name")))
            /\ parser.source = IfBodySource /\ is_truthy(operand_value(data[r], ".flag")) =>
                  /\ outer_scope(r)["$y"] = operand_value(data[r], ".name")
                  /\ rendered_text(r) = bracketed(operand_value(data[r], ".name"))
            /\ parser.source = NestedIfBodySource
                 /\ is_truthy(operand_value(data[r], ".inner")) =>
                  rendered_text(r)
                     = bracketed(operand_value(operand_value(data[r], ".inner"), ".value"))

\* a range over two or more elements has returned and its header names were
\* written after its end
C30_RangeHeaderWrittenAfterLoop ==
    /\ parser.source = RangeHeaderSource
    /\ \E r \in Callers :
          /\ rendered_ok(r)
          /\ Tag(operand_value(data[r], ".items")) = "arr"
          /\ Len(Payload(operand_value(data[r], ".items"))) >= 2

====
